---- MODULE Spec2Model ----
(***************************************************************************)
(* A model of the vault-secrets-rotator: the dotenv updater and parser of  *)
(* vault_utils.py, the three format codecs of secret_formats.py and the    *)
(* rotation of utils.py (rotate_secret_kv) against a key-value store.      *)
(*                                                                         *)
(* A Python str is a sequence of one-character strings; a Python dict      *)
(* whose iteration order is not observed is a function, and the field      *)
(* mapping of a secret, whose iteration order the format sniffing reads,   *)
(* is a sequence of <<name, value>> pairs in insertion order.              *)
(***************************************************************************)
EXTENDS Integers, Sequences, FiniteSets, TLC

VARIABLES
    pc,           \* position of the driver of the specification in use
    content,      \* updater: the raw text T
    updates,      \* updater: the update set U (key -> new value)
    applied,      \* updater: outcome of update_dotenv_content(T, U)
    reapplied,    \* updater: outcome of applying U to the text of applied
    secrets,      \* codec: the mapping m handed to format_secret
    format_type,  \* codec: the format name
    encoded,      \* codec: format_secret(m, f)
    decoded,      \* codec: outcome of read_secret(encoded, f)
    store,        \* rotation: the store, path -> field mapping
    request,      \* rotation: arguments of the rotate_secret_kv call
    writes,       \* rotation: the create_or_update_secret calls issued
    outcome,      \* rotation: how the call ended
    snapshot      \* rotation: the store as it was when the call began

vars == <<pc, content, updates, applied, reapplied, secrets, format_type,
          encoded, decoded, store, request, writes, outcome, snapshot>>

updaterVars == <<content, updates, applied, reapplied>>
codecVars == <<secrets, format_type, encoded, decoded>>
rotationVars == <<store, request, writes, outcome, snapshot>>

(***************************************************************************)
(* Bounds of the model.                                                    *)
(***************************************************************************)
MaxLines == 3
MaxKeys == 2

NoValue == <<"<none>">>

(***************************************************************************)
(* Python str primitives.                                                  *)
(***************************************************************************)
\* the characters str.strip() removes (the ASCII ones that occur here)
Whitespace == {" ", "\t", "\n", "\r"}

Quotes == {"\"", "'"}

RECURSIVE LStripChars(_, _)
LStripChars(s, chars) ==
    IF s # <<>> /\ Head(s) \in chars THEN LStripChars(Tail(s), chars) ELSE s

RECURSIVE RStripChars(_, _)
RStripChars(s, chars) ==
    IF s # <<>> /\ s[Len(s)] \in chars
    THEN RStripChars(SubSeq(s, 1, Len(s) - 1), chars)
    ELSE s

\* str.strip(chars)
StripChars(s, chars) == RStripChars(LStripChars(s, chars), chars)

\* str.strip()
Strip(s) == StripChars(s, Whitespace)

\* s[a-1:b], a slice that may reach past the end
Slice(s, a, b) ==
    IF a > Len(s) THEN <<>> ELSE SubSeq(s, a, IF b > Len(s) THEN Len(s) ELSE b)

\* str.startswith(prefix)
StartsWith(s, prefix) ==
    Len(s) >= Len(prefix) /\ SubSeq(s, 1, Len(prefix)) = prefix

\* str.endswith(suffix)
EndsWith(s, suffix) ==
    Len(s) >= Len(suffix) /\ SubSeq(s, Len(s) - Len(suffix) + 1, Len(s)) = suffix

\* index of the first occurrence of character c in s, 0 when there is none
FirstIndex(s, c) ==
    IF \E i \in 1..Len(s) : s[i] = c
    THEN CHOOSE i \in 1..Len(s) : s[i] = c /\ \A j \in 1..(i - 1) : s[j] # c
    ELSE 0

\* str.split(c): always at least one piece
RECURSIVE Split(_, _)
Split(s, c) ==
    LET i == FirstIndex(s, c)
    IN IF i = 0 THEN <<s>>
       ELSE <<SubSeq(s, 1, i - 1)>> \o Split(SubSeq(s, i + 1, Len(s)), c)

\* str.split(c, 1): one piece when c does not occur, two otherwise
SplitOnce(s, c) ==
    LET i == FirstIndex(s, c)
    IN IF i = 0 THEN <<s>>
       ELSE <<SubSeq(s, 1, i - 1), SubSeq(s, i + 1, Len(s))>>

\* sep.join(pieces)
RECURSIVE Join(_, _)
Join(pieces, sep) ==
    IF pieces = <<>> THEN <<>>
    ELSE IF Len(pieces) = 1 THEN pieces[1]
    ELSE pieces[1] \o sep \o Join(Tail(pieces), sep)

\* substring test: needle in s
Contains(s, needle) ==
    \E i \in 1..(Len(s) - Len(needle) + 1) :
        SubSeq(s, i, i + Len(needle) - 1) = needle

NL == <<"\n">>
ExportPrefix == <<"e", "x", "p", "o", "r", "t", " ">>
DQ == <<"\"">>

(***************************************************************************)
(* Python dict primitives (iteration order not observed).                  *)
(***************************************************************************)
EmptyDict == <<>>

\* d[k] = v
DictSet(d, k, v) == [x \in (DOMAIN d) \cup {k} |-> IF x = k THEN v ELSE d[x]]

\* d.update(e)
DictUpdate(d, e) ==
    [x \in (DOMAIN d) \cup (DOMAIN e) |-> IF x \in DOMAIN e THEN e[x] ELSE d[x]]

(***************************************************************************)
(* vault_utils.py                                                          *)
(***************************************************************************)
\* one pass of the loop of parse_dotenv_content over the remaining lines
RECURSIVE ParseDotenvLines(_, _)
ParseDotenvLines(lines, result) ==
    IF lines = <<>> THEN result
    ELSE LET line == Strip(Head(lines))
             rest == SubSeq(line, Len(ExportPrefix) + 1, Len(line))
             parts == SplitOnce(rest, "=")
         IN IF line # <<>> /\ StartsWith(line, ExportPrefix) /\ Len(parts) = 2
            THEN ParseDotenvLines(Tail(lines),
                     DictSet(result, Strip(parts[1]), StripChars(parts[2], Quotes)))
            ELSE ParseDotenvLines(Tail(lines), result)

parse_dotenv_content(text) ==
    IF text = <<>> THEN EmptyDict
    ELSE ParseDotenvLines(Split(Strip(text), "\n"), EmptyDict)

\* the line the updater writes for an updated key
MutantNewLineTerminated(key, value) ==
    ExportPrefix \o key \o <<"=">> \o DQ \o value \o DQ \o NL
NewLine(key, value) == ExportPrefix \o key \o <<"=">> \o DQ \o value \o DQ

\* the loop of update_dotenv_content: acc is [lines, old, raised]
RECURSIVE MutantUpdateKeepsFirstOld(_, _, _)
MutantUpdateKeepsFirstOld(lines, upd, acc) ==
    IF lines = <<>> \/ acc.raised THEN acc
    ELSE LET original_line == Head(lines)
             line == Strip(original_line)
             var_part == SubSeq(line, Len(ExportPrefix) + 1, Len(line))
             parts == SplitOnce(var_part, "=")
             key == Strip(parts[1])
         IN IF line # <<>> /\ StartsWith(line, ExportPrefix) /\ key \in DOMAIN upd
            THEN IF Len(parts) < 2
                 THEN [acc EXCEPT !.raised = TRUE]
                 ELSE MutantUpdateKeepsFirstOld(Tail(lines), upd,
                        [lines |-> Append(acc.lines, NewLine(key, upd[key])),
                         old |-> IF key \in DOMAIN acc.old THEN acc.old
                                 ELSE DictSet(acc.old, key,
                                              StripChars(Strip(parts[2]), Quotes)),
                         raised |-> FALSE])
            ELSE MutantUpdateKeepsFirstOld(Tail(lines), upd,
                        [acc EXCEPT !.lines = Append(acc.lines, original_line)])

RECURSIVE UpdateDotenvLines(_, _, _)
UpdateDotenvLines(lines, upd, acc) ==
    IF lines = <<>> \/ acc.raised THEN acc
    ELSE LET original_line == Head(lines)
             line == Strip(original_line)
             var_part == SubSeq(line, Len(ExportPrefix) + 1, Len(line))
             parts == SplitOnce(var_part, "=")
             key == Strip(parts[1])
         IN IF line # <<>> /\ StartsWith(line, ExportPrefix) /\ key \in DOMAIN upd
            THEN IF Len(parts) < 2
                 THEN [acc EXCEPT !.raised = TRUE]       \* IndexError
                 ELSE UpdateDotenvLines(Tail(lines), upd,
                        [lines |-> Append(acc.lines, NewLine(key, upd[key])),
                         old |-> DictSet(acc.old, key,
                                         StripChars(Strip(parts[2]), Quotes)),
                         raised |-> FALSE])
            ELSE UpdateDotenvLines(Tail(lines), upd,
                        [acc EXCEPT !.lines = Append(acc.lines, original_line)])

\* the lines update_dotenv_content walks over
LinesOf(text) == Split(Strip(text), "\n")

\* update_dotenv_content(content, updates): [raised, text, old]
MutantUpdateNoEarlyReturn(text, upd) ==
    LET acc == UpdateDotenvLines(LinesOf(text), upd,
                   [lines |-> <<>>, old |-> EmptyDict, raised |-> FALSE])
    IN IF acc.raised
       THEN [raised |-> TRUE, text |-> NoValue, old |-> EmptyDict]
       ELSE [raised |-> FALSE, text |-> Join(acc.lines, NL), old |-> acc.old]

update_dotenv_content(text, upd) ==
    IF text = <<>> \/ DOMAIN upd = {}
    THEN [raised |-> FALSE, text |-> text, old |-> EmptyDict]
    ELSE LET acc == UpdateDotenvLines(LinesOf(text), upd,
                        [lines |-> <<>>, old |-> EmptyDict, raised |-> FALSE])
         IN IF acc.raised
            THEN [raised |-> TRUE, text |-> NoValue, old |-> EmptyDict]
            ELSE [raised |-> FALSE, text |-> Join(acc.lines, NL), old |-> acc.old]

(***************************************************************************)
(* Inputs of the updater: texts of up to MaxLines lines drawn from a pool  *)
(* of line shapes, and update sets over two keys.                          *)
(***************************************************************************)
KeyA == <<"A">>
KeyB == <<"B">>

LineDouble == ExportPrefix \o <<"A", "=", "\"", "1", "\"">>     \* export A="1"
LineSingle == ExportPrefix \o <<"A", "=", "'", "3", "'">>       \* export A='3'
LineBare == ExportPrefix \o <<"B", "=", "2">>                   \* export B=2
LineComment == <<" ", "#", "c", " ">>                           \* comment, padded
LineBlank == <<>>
LineSpaced == ExportPrefix \o <<"A", "=", " ", "\"", "1", "\"">> \* export A= "1"
LineNoEquals == ExportPrefix \o <<"B">>                         \* export B

LinePool == {LineDouble, LineSingle, LineBare, LineComment, LineBlank,
             LineSpaced, LineNoEquals}

Contents == {Join(ls, NL) : ls \in UNION {[1..n -> LinePool] : n \in 1..MaxLines}}

NewValues == {<<"9">>, <<"7", "\n", "8">>}

UpdateSets == UNION {[ks -> NewValues] : ks \in SUBSET {KeyA, KeyB}}

Idle == [raised |-> FALSE, text |-> NoValue, old |-> EmptyDict]

CodecIdle ==
    /\ secrets = <<>>
    /\ format_type = "none"
    /\ encoded = NoValue
    /\ decoded = [raised |-> FALSE, is_dict |-> FALSE, value |-> NoValue]

RotationIdle ==
    /\ store = EmptyDict
    /\ request = NoValue
    /\ writes = <<>>
    /\ outcome = NoValue
    /\ snapshot = EmptyDict

InitUpdater ==
    /\ pc = "start"
    /\ content \in Contents
    /\ updates \in UpdateSets
    /\ applied = Idle
    /\ reapplied = Idle
    /\ CodecIdle
    /\ RotationIdle

\* a call update_dotenv_content(content, updates)
Apply ==
    /\ pc = "start"
    /\ applied' = update_dotenv_content(content, updates)
    /\ pc' = "applied"
    /\ UNCHANGED <<content, updates, reapplied, codecVars, rotationVars>>

\* a second call, on the text the first one returned
Reapply ==
    /\ pc = "applied"
    /\ ~applied.raised
    /\ reapplied' = update_dotenv_content(applied.text, updates)
    /\ pc' = "reapplied"
    /\ UNCHANGED <<content, updates, applied, codecVars, rotationVars>>

NextUpdater == Apply \/ Reapply

SpecUpdater == InitUpdater /\ [][NextUpdater]_vars

(***************************************************************************)
(* Properties of the updater.                                              *)
(***************************************************************************)
\* the key the updater's line grammar extracts from a line, NoValue if none
ExtractedKey(original_line) ==
    LET line == Strip(original_line)
        var_part == SubSeq(line, Len(ExportPrefix) + 1, Len(line))
    IN IF line # <<>> /\ StartsWith(line, ExportPrefix)
       THEN Strip(SplitOnce(var_part, "=")[1])
       ELSE NoValue

\* the text after the first '=' of an export line, trimmed
ValueToken(original_line) ==
    LET line == Strip(original_line)
        var_part == SubSeq(line, Len(ExportPrefix) + 1, Len(line))
    IN Strip(SplitOnce(var_part, "=")[2])

Touched(line) == ExtractedKey(line) \in DOMAIN updates

Returned == pc \in {"applied", "reapplied"} /\ ~applied.raised

NoLineBreaks == \A k \in DOMAIN updates : ~Contains(updates[k], NL)

RawLines == Split(content, "\n")
OutLines == Split(applied.text, "\n")

\* C1: every line of T whose extracted key is not in U appears byte-identical
\* among the lines of the text update_dotenv_content(T, U) returns.
C1_LinePreservation ==
    Returned =>
        \A i \in DOMAIN RawLines :
            ~Touched(RawLines[i]) =>
                \E j \in DOMAIN OutLines : OutLines[j] = RawLines[i]

\* the keys that occur on a line of T
KeysIn(text) == {ExtractedKey(l) : l \in {Split(text, "\n")[i] : i \in DOMAIN Split(text, "\n")}}

\* C2: a key of U that occurs on no line of T gets a new line export k="U[k]"
\* in the returned text, and no entry in the returned old values (T not
\* empty: the empty text is returned as it is).
C2_AppendOnAbsent ==
    (Returned /\ content # <<>>) =>
        \A k \in DOMAIN updates :
            k \notin KeysIn(content) =>
                /\ Contains(applied.text, NewLine(k, updates[k]))
                /\ k \notin DOMAIN applied.old

\* C3: for each key of U that T defines, the returned old values map it to
\* the decoded value it has in T, as parse_dotenv_content reads T.
C3_OldValueCorrect ==
    Returned =>
        \A k \in DOMAIN updates :
            k \in DOMAIN parse_dotenv_content(content) =>
                /\ k \in DOMAIN applied.old
                /\ applied.old[k] = parse_dotenv_content(content)[k]

LeadingWhitespace(text) == SubSeq(text, 1, Len(text) - Len(LStripChars(text, Whitespace)))

\* C5: the untouched lines of T keep their positions in the output, and the
\* output ends with a newline and starts with whitespace exactly as T did.
C5_StructurePreserved ==
    Returned =>
        /\ EndsWith(applied.text, NL) <=> EndsWith(content, NL)
        /\ LeadingWhitespace(applied.text) = LeadingWhitespace(content)
        /\ NoLineBreaks =>
              /\ Len(OutLines) = Len(RawLines)
              /\ \A i \in DOMAIN RawLines :
                    ~Touched(RawLines[i]) => OutLines[i] = RawLines[i]

\* the line C6 expects for a rewritten line: the original quote character
\* kept, double quotes when the original value was not quoted
QuoteKeepingLine(line) ==
    LET key == ExtractedKey(line)
        tok == ValueToken(line)
        q == IF tok # <<>> /\ Head(tok) \in Quotes THEN <<Head(tok)>> ELSE DQ
    IN ExportPrefix \o key \o <<"=">> \o q \o updates[key] \o q

\* C6: a rewritten line keeps the quote character of the original line
\* (single stays single, double stays double, unquoted becomes double).
C6_QuotePreserved ==
    (Returned /\ NoLineBreaks /\ content # <<>>) =>
        \A i \in DOMAIN LinesOf(content) :
            Touched(LinesOf(content)[i]) =>
                OutLines[i] = QuoteKeepingLine(LinesOf(content)[i])

(***************************************************************************)
(* Ordered dicts: a Python dict whose iteration order is observed, as the  *)
(* sequence of its <<key, value>> items in insertion order.                *)
(***************************************************************************)
ODKeys(d) == {d[i][1] : i \in DOMAIN d}

ODHas(d, k) == k \in ODKeys(d)

\* d[k]
ODGet(d, k) == d[CHOOSE i \in DOMAIN d : d[i][1] = k][2]

\* d[k] = v: an existing key keeps its place
ODSet(d, k, v) ==
    IF ODHas(d, k)
    THEN [i \in DOMAIN d |-> IF d[i][1] = k THEN <<k, v>> ELSE d[i]]
    ELSE Append(d, <<k, v>>)

\* d.update(e)
RECURSIVE ODUpdate(_, _)
ODUpdate(d, e) ==
    IF e = <<>> THEN d ELSE ODUpdate(ODSet(d, e[1][1], e[1][2]), Tail(e))

\* d == e, which does not look at the order
ODEq(d, e) ==
    /\ ODKeys(d) = ODKeys(e)
    /\ \A k \in ODKeys(d) : ODGet(d, k) = ODGet(e, k)

\* the ASCII characters of the texts (no backquote), in code point order
Ascii ==
    <<"\t", "\n", "\r", " ", "!", "\"", "#", "$", "%", "&", "'", "(", ")", "*",
      "+", ",", "-", ".", "/", "0", "1", "2", "3", "4", "5", "6", "7", "8", "9",
      ":", ";", "<", "=", ">", "?", "@", "A", "B", "C", "D", "E", "F", "G", "H",
      "I", "J", "K", "L", "M", "N", "O", "P", "Q", "R", "S", "T", "U", "V", "W",
      "X", "Y", "Z", "[", "\\", "]", "^", "_", "a", "b", "c", "d", "e", "f",
      "g", "h", "i", "j", "k", "l", "m", "n", "o", "p", "q", "r", "s", "t", "u",
      "v", "w", "x", "y", "z", "{", "|", "}", "~">>

Ord(c) == CHOOSE i \in DOMAIN Ascii : Ascii[i] = c

\* a < b for two str
RECURSIVE StrLess(_, _)
StrLess(a, b) ==
    IF b = <<>> THEN FALSE
    ELSE IF a = <<>> THEN TRUE
    ELSE IF Head(a) = Head(b) THEN StrLess(Tail(a), Tail(b))
    ELSE Ord(Head(a)) < Ord(Head(b))

\* sorted(d.items()): the items by key
RECURSIVE SortedItems(_)
SortedItems(d) ==
    IF d = <<>> THEN <<>>
    ELSE LET m == CHOOSE i \in DOMAIN d :
                      \A j \in DOMAIN d : j # i => StrLess(d[i][1], d[j][1])
             rest == [j \in 1..(Len(d) - 1) |-> IF j < m THEN d[j] ELSE d[j + 1]]
         IN <<d[m]>> \o SortedItems(rest)

(***************************************************************************)
(* secret_formats.py: the regular expressions of the two dotenv parsers.   *)
(***************************************************************************)
\* the word characters: letters, digits, underscore
WordChars ==
    {"A", "B", "C", "D", "E", "F", "G", "H", "I", "J", "K", "L", "M", "N", "O",
     "P", "Q", "R", "S", "T", "U", "V", "W", "X", "Y", "Z", "a", "b", "c", "d",
     "e", "f", "g", "h", "i", "j", "k", "l", "m", "n", "o", "p", "q", "r", "s",
     "t", "u", "v", "w", "x", "y", "z", "0", "1", "2", "3", "4", "5", "6", "7",
     "8", "9", "_"}

\* the whitespace class of the patterns
RegexSpace == {" ", "\t", "\n", "\r"}

ExportWord == <<"e", "x", "p", "o", "r", "t">>

\* the first index from i on whose character is not in chars (Len(s)+1 if none)
RECURSIVE SkipChars(_, _, _)
SkipChars(s, i, chars) ==
    IF i <= Len(s) /\ s[i] \in chars THEN SkipChars(s, i + 1, chars) ELSE i

\* a lazy non-empty run of non-newline characters followed by a character of
\* stops: the index of that character, scanning from q, the index after the
\* first character of the run; 0 when the pattern cannot match
RECURSIVE LazyUntil(_, _, _)
LazyUntil(s, q, stops) ==
    IF q > Len(s) \/ s[q - 1] = "\n" THEN 0
    ELSE IF s[q] \in stops THEN q
    ELSE LazyUntil(s, q + 1, stops)

\* the index of the first line break from i on, Len(s)+1 when there is none
RECURSIVE LineEnd(_, _)
LineEnd(s, i) ==
    IF i > Len(s) \/ s[i] = "\n" THEN i ELSE LineEnd(s, i + 1)

\* the pattern of DotenvExportFormatter.parse (the word export, whitespace,
\* a word, an equals sign, a quote, a lazy non-empty value, a quote) matched
\* at index i: [ok, key, value, next]
MatchExportAt(s, i) ==
    LET ws == i + Len(ExportWord)
        k == SkipChars(s, ws, RegexSpace)
        eq == SkipChars(s, k, WordChars)
        close == LazyUntil(s, eq + 3, Quotes)
    IN IF /\ Slice(s, i, ws - 1) = ExportWord
          /\ k > ws
          /\ eq > k
          /\ eq + 2 <= Len(s)
          /\ s[eq] = "="
          /\ s[eq + 1] \in Quotes
          /\ close # 0
       THEN [ok |-> TRUE, key |-> SubSeq(s, k, eq - 1),
             value |-> SubSeq(s, eq + 2, close - 1), next |-> close + 1]
       ELSE [ok |-> FALSE, key |-> <<>>, value |-> <<>>, next |-> i + 1]

\* the pattern of DotenvPlainFormatter.parse (a word, an equals sign, then
\* either a quoted lazy value or a lazy value up to a line break or the end)
\* matched at index i
MatchPlainAt(s, i) ==
    LET eq == SkipChars(s, i, WordChars)
        keyed == eq > i /\ eq <= Len(s) /\ s[eq] = "="
        close == IF eq + 2 <= Len(s) /\ s[eq + 1] \in Quotes
                 THEN LazyUntil(s, eq + 3, Quotes) ELSE 0
        eol == IF eq + 1 <= Len(s) /\ s[eq + 1] # "\n"
               THEN LineEnd(s, eq + 2) ELSE 0
    IN IF keyed /\ close # 0
       THEN [ok |-> TRUE, key |-> SubSeq(s, i, eq - 1),
             value |-> SubSeq(s, eq + 2, close - 1), next |-> close + 1]
       ELSE IF keyed /\ eol # 0
       THEN [ok |-> TRUE, key |-> SubSeq(s, i, eq - 1),
             value |-> SubSeq(s, eq + 1, eol - 1), next |-> eol + 1]
       ELSE [ok |-> FALSE, key |-> <<>>, value |-> <<>>, next |-> i + 1]

\* re.finditer with the export pattern, collecting result[key] = value
RECURSIVE FindExport(_, _, _)
FindExport(s, i, result) ==
    IF i > Len(s) THEN result
    ELSE LET m == MatchExportAt(s, i)
         IN FindExport(s, m.next, IF m.ok THEN ODSet(result, m.key, m.value) ELSE result)

\* re.finditer with the plain pattern, collecting result[key] = value
RECURSIVE FindPlain(_, _, _)
FindPlain(s, i, result) ==
    IF i > Len(s) THEN result
    ELSE LET m == MatchPlainAt(s, i)
         IN FindPlain(s, m.next, IF m.ok THEN ODSet(result, m.key, m.value) ELSE result)

\* DotenvExportFormatter.parse
ParseExport(text) == FindExport(text, 1, <<>>)

\* DotenvPlainFormatter.parse
ParsePlain(text) == FindPlain(text, 1, <<>>)

\* one line of DotenvExportFormatter.format
MutantExportLineNoPrefix(key, value) == key \o <<"=">> \o DQ \o value \o DQ
ExportLine(key, value) == ExportPrefix \o key \o <<"=">> \o DQ \o value \o DQ

\* one line of DotenvPlainFormatter.format
PlainLine(key, value) == key \o <<"=">> \o value

\* DotenvExportFormatter.format
FormatExport(d) ==
    Join([i \in DOMAIN d |-> ExportLine(SortedItems(d)[i][1], SortedItems(d)[i][2])], NL)

\* DotenvPlainFormatter.format
FormatPlain(d) ==
    Join([i \in DOMAIN d |-> PlainLine(SortedItems(d)[i][1], SortedItems(d)[i][2])], NL)

(***************************************************************************)
(* secret_formats.py: JSON.  json.dumps(d, indent=2) and json.loads, for   *)
(* the JSON texts in scope: objects whose members are strings, and the     *)
(* values that are not objects (array, string, number, true, false, null). *)
(***************************************************************************)
BS == "\\"

\* a character inside a JSON string, as json.dumps writes it
JsonEscape(c) ==
    IF c = "\"" THEN <<BS, "\"">>
    ELSE IF c = BS THEN <<BS, BS>>
    ELSE IF c = "\n" THEN <<BS, "n">>
    ELSE IF c = "\r" THEN <<BS, "r">>
    ELSE IF c = "\t" THEN <<BS, "t">>
    ELSE <<c>>

RECURSIVE JsonEscapeAll(_)
JsonEscapeAll(str) ==
    IF str = <<>> THEN <<>> ELSE JsonEscape(Head(str)) \o JsonEscapeAll(Tail(str))

JsonString(str) == DQ \o JsonEscapeAll(str) \o DQ

\* one member line of json.dumps(d, indent=2)
JsonMember(key, value) == <<" ", " ">> \o JsonString(key) \o <<":", " ">> \o JsonString(value)

\* json.dumps(d, indent=2), members in the order of the dict
json_dumps(d) ==
    IF d = <<>> THEN <<"{", "}">>
    ELSE <<"{", "\n">>
         \o Join([i \in DOMAIN d |-> JsonMember(d[i][1], d[i][2])], <<",", "\n">>)
         \o <<"\n", "}">>

JsonSpace == {" ", "\t", "\n", "\r"}

\* a JSON string whose opening quote is at i - 1: [ok, value, next]
RECURSIVE JsonStringBody(_, _, _)
JsonStringBody(s, i, acc) ==
    IF i > Len(s) \/ s[i] \in {"\n", "\r", "\t"}
    THEN [ok |-> FALSE, value |-> <<>>, next |-> i]
    ELSE IF s[i] = "\"" THEN [ok |-> TRUE, value |-> acc, next |-> i + 1]
    ELSE IF s[i] = BS
    THEN IF i + 1 > Len(s) THEN [ok |-> FALSE, value |-> <<>>, next |-> i]
         ELSE IF s[i + 1] \in {"\"", BS, "/"}
         THEN JsonStringBody(s, i + 2, Append(acc, s[i + 1]))
         ELSE IF s[i + 1] = "n" THEN JsonStringBody(s, i + 2, Append(acc, "\n"))
         ELSE IF s[i + 1] = "r" THEN JsonStringBody(s, i + 2, Append(acc, "\r"))
         ELSE IF s[i + 1] = "t" THEN JsonStringBody(s, i + 2, Append(acc, "\t"))
         ELSE [ok |-> FALSE, value |-> <<>>, next |-> i]
    ELSE JsonStringBody(s, i + 1, Append(acc, s[i]))

JsonStringAt(s, i) ==
    IF i <= Len(s) /\ s[i] = "\"" THEN JsonStringBody(s, i + 1, <<>>)
    ELSE [ok |-> FALSE, value |-> <<>>, next |-> i]

\* the members of an object from index i on, the first expected at i
RECURSIVE JsonMembers(_, _, _)
JsonMembers(s, i, acc) ==
    LET k == JsonStringAt(s, i)
        colon == SkipChars(s, k.next, JsonSpace)
        v == JsonStringAt(s, SkipChars(s, colon + 1, JsonSpace))
        after == SkipChars(s, v.next, JsonSpace)
        fail == [ok |-> FALSE, value |-> <<>>, next |-> i]
    IN IF ~k.ok \/ colon > Len(s) \/ s[colon] # ":" THEN fail
       ELSE IF ~v.ok \/ after > Len(s) THEN fail
       ELSE IF s[after] = "}"
       THEN [ok |-> TRUE, value |-> ODSet(acc, k.value, v.value), next |-> after + 1]
       ELSE IF s[after] = ","
       THEN JsonMembers(s, SkipChars(s, after + 1, JsonSpace), ODSet(acc, k.value, v.value))
       ELSE fail

\* an object whose brace is at i
JsonObjectAt(s, i) ==
    LET j == SkipChars(s, i + 1, JsonSpace)
    IN IF j <= Len(s) /\ s[j] = "}" THEN [ok |-> TRUE, value |-> <<>>, next |-> j + 1]
       ELSE JsonMembers(s, j, <<>>)

Digits == {"0", "1", "2", "3", "4", "5", "6", "7", "8", "9"}

\* a value that is not an object, at i: the empty array, a string, an
\* integer or a literal; next is 0 when none is there
JsonOtherAt(s, i) ==
    IF Slice(s, i, i + 1) = <<"[", "]">> THEN i + 2
    ELSE IF Slice(s, i, i + 3) \in {<<"t", "r", "u", "e">>, <<"n", "u", "l", "l">>} THEN i + 4
    ELSE IF Slice(s, i, i + 4) = <<"f", "a", "l", "s", "e">> THEN i + 5
    ELSE IF i <= Len(s) /\ s[i] \in Digits \ {"0"} THEN SkipChars(s, i, Digits)
    ELSE IF JsonStringAt(s, i).ok THEN JsonStringAt(s, i).next
    ELSE 0

\* json.loads(text): [raised, is_dict, value]
json_loads(text) ==
    LET i == SkipChars(text, 1, JsonSpace)
        obj == JsonObjectAt(text, i)
        other == JsonOtherAt(text, i)
        bad == [raised |-> TRUE, is_dict |-> FALSE, value |-> <<>>]
    IN IF i > Len(text) THEN bad
       ELSE IF text[i] = "{"
       THEN IF obj.ok /\ SkipChars(text, obj.next, JsonSpace) > Len(text)
            THEN [raised |-> FALSE, is_dict |-> TRUE, value |-> obj.value]
            ELSE bad
       ELSE IF other # 0 /\ SkipChars(text, other, JsonSpace) > Len(text)
       THEN [raised |-> FALSE, is_dict |-> FALSE, value |-> <<>>]
       ELSE bad

(***************************************************************************)
(* secret_formats.py: the factory and the two module functions.            *)
(***************************************************************************)
Formats == {"dotenv_export", "json", "dotenv_plain"}

\* read_secret(content, format_type): [raised, is_dict, value]
read_secret(text, fmt) ==
    IF fmt = "dotenv_export"
    THEN [raised |-> FALSE, is_dict |-> TRUE, value |-> ParseExport(text)]
    ELSE IF fmt = "dotenv_plain"
    THEN [raised |-> FALSE, is_dict |-> TRUE, value |-> ParsePlain(text)]
    ELSE IF fmt = "json" THEN json_loads(text)
    ELSE [raised |-> TRUE, is_dict |-> FALSE, value |-> <<>>]

\* format_secret(secrets, format_type), for a format the factory knows
format_secret(d, fmt) ==
    IF fmt = "dotenv_export" THEN FormatExport(d)
    ELSE IF fmt = "dotenv_plain" THEN FormatPlain(d)
    ELSE json_dumps(d)

(***************************************************************************)
(* Inputs of the codec: mappings of up to MaxKeys items, with non-empty    *)
(* keys and values.                                                        *)
(***************************************************************************)
CodecKeys == {KeyA, KeyB, <<"a", "-", "b">>}

CodecValues ==
    {<<"1">>, <<"a", " ", "b">>, <<"b", "=", "c">>, <<"a", "\"", "b">>,
     <<"'", "a", "'">>, <<"x", "\n", "y">>}

Mappings ==
    {d \in UNION {[1..n -> CodecKeys \X CodecValues] : n \in 0..MaxKeys} :
        \A i, j \in DOMAIN d : i # j => d[i][1] # d[j][1]}

UpdaterIdle ==
    /\ content = NoValue
    /\ updates = EmptyDict
    /\ applied = Idle
    /\ reapplied = Idle

NotRead == [raised |-> FALSE, is_dict |-> FALSE, value |-> NoValue]

InitCodec ==
    /\ pc = "start"
    /\ secrets \in Mappings
    /\ format_type \in Formats
    /\ encoded = NoValue
    /\ decoded = NotRead
    /\ UpdaterIdle
    /\ RotationIdle

\* a call format_secret(secrets, format_type)
Format ==
    /\ pc = "start"
    /\ encoded' = format_secret(secrets, format_type)
    /\ pc' = "formatted"
    /\ UNCHANGED <<secrets, format_type, decoded, updaterVars, rotationVars>>

\* a call read_secret on the text format_secret returned
Read ==
    /\ pc = "formatted"
    /\ decoded' = read_secret(encoded, format_type)
    /\ pc' = "read"
    /\ UNCHANGED <<secrets, format_type, encoded, updaterVars, rotationVars>>

NextCodec == Format \/ Read

SpecCodec == InitCodec /\ [][NextCodec]_vars

(***************************************************************************)
(* Properties of the codec.                                                *)
(***************************************************************************)
RoundTrip == ~decoded.raised /\ decoded.is_dict /\ ODEq(decoded.value, secrets)

\* C7 as stated: for each format and every mapping with non-empty keys and
\* values, read_secret(format_secret(m, f), f) equals m.
C7_RoundTripAlways == pc = "read" => RoundTrip

\* the keys are words and no value holds a quote character or a line break
PlainMapping(d) ==
    \A i \in DOMAIN d :
        /\ \A j \in DOMAIN d[i][1] : d[i][1][j] \in WordChars
        /\ \A j \in DOMAIN d[i][2] : d[i][2][j] \notin Quotes \cup {"\n"}

\* C7 amended: the round trip holds for json and every mapping, and for
\* the two dotenv formats and every mapping whose keys are made of letters,
\* digits and underscores and whose values hold no quote and no line break.
C7_RoundTripPlainMappings ==
    (pc = "read" /\ (format_type = "json" \/ PlainMapping(secrets))) => RoundTrip

\* a dotenv round trip of two items, and a json round trip of a value with a
\* quote in it, have been made
C7_Witness ==
    /\ pc = "read"
    /\ Len(secrets) = 2
    /\ \/ format_type # "json" /\ PlainMapping(secrets)
       \/ format_type = "json" /\ ~PlainMapping(secrets)
    /\ RoundTrip

(***************************************************************************)
(* utils.py: names and path handling.                                      *)
(***************************************************************************)
DOTENV == <<"d", "o", "t", "e", "n", "v">>
SECRETS == <<"s", "e", "c", "r", "e", "t", "s">>
DATA == <<"d", "a", "t", "a">>
AWS_ACCESS_KEY_ID ==
    <<"A", "W", "S", "_", "A", "C", "C", "E", "S", "S", "_", "K", "E", "Y",
      "_", "I", "D">>
AWS_SECRET_ACCESS_KEY ==
    <<"A", "W", "S", "_", "S", "E", "C", "R", "E", "T", "_", "A", "C", "C",
      "E", "S", "S", "_", "K", "E", "Y">>
ACCESS_KEY == <<"A", "C", "C", "E", "S", "S", "_", "K", "E", "Y">>
SECRET_KEY == <<"S", "E", "C", "R", "E", "T", "_", "K", "E", "Y">>
S3_ACCESS_KEY ==
    <<"S", "3", "_", "A", "C", "C", "E", "S", "S", "_", "K", "E", "Y">>
S3_SECRET_KEY ==
    <<"S", "3", "_", "S", "E", "C", "R", "E", "T", "_", "K", "E", "Y">>
AWS_ACCESS_KEY ==
    <<"A", "W", "S", "_", "A", "C", "C", "E", "S", "S", "_", "K", "E", "Y">>
AWS_SECRET_KEY ==
    <<"A", "W", "S", "_", "S", "E", "C", "R", "E", "T", "_", "K", "E", "Y">>
KV_DATA == <<"k", "v", "/", "d", "a", "t", "a", "/">>

UpperCase ==
    <<"A", "B", "C", "D", "E", "F", "G", "H", "I", "J", "K", "L", "M", "N", "O",
      "P", "Q", "R", "S", "T", "U", "V", "W", "X", "Y", "Z">>

LowerCase ==
    <<"a", "b", "c", "d", "e", "f", "g", "h", "i", "j", "k", "l", "m", "n", "o",
      "p", "q", "r", "s", "t", "u", "v", "w", "x", "y", "z">>

\* str.upper()
Upper(s) ==
    [i \in DOMAIN s |->
        IF \E j \in DOMAIN LowerCase : LowerCase[j] = s[i]
        THEN UpperCase[CHOOSE j \in DOMAIN LowerCase : LowerCase[j] = s[i]]
        ELSE s[i]]

\* str.lower()
Lower(s) ==
    [i \in DOMAIN s |->
        IF \E j \in DOMAIN UpperCase : UpperCase[j] = s[i]
        THEN LowerCase[CHOOSE j \in DOMAIN UpperCase : UpperCase[j] = s[i]]
        ELSE s[i]]

\* str.replace(old, new), old not empty
RECURSIVE Replace(_, _, _)
Replace(s, old, new) ==
    IF s = <<>> THEN <<>>
    ELSE IF StartsWith(s, old)
    THEN new \o Replace(SubSeq(s, Len(old) + 1, Len(s)), old, new)
    ELSE <<Head(s)>> \o Replace(Tail(s), old, new)

\* the items of a sequence that are not in drop
RECURSIVE Without(_, _)
Without(seq, drop) ==
    IF seq = <<>> THEN <<>>
    ELSE IF Head(seq) \in drop THEN Without(Tail(seq), drop)
    ELSE <<Head(seq)>> \o Without(Tail(seq), drop)

\* str(Path(path)) of a POSIX path: repeated slashes, dot segments and a
\* trailing slash go; an empty path is the dot
PathStr(path) ==
    LET parts == Without(Split(path, "/"), {<<>>, <<".">>})
        root == IF StartsWith(path, <<"/", "/">>) /\ ~StartsWith(path, <<"/", "/", "/">>)
                THEN <<"/", "/">>
                ELSE IF StartsWith(path, <<"/">>) THEN <<"/">> ELSE <<>>
    IN IF parts = <<>> /\ root = <<>> THEN <<".">>
       ELSE root \o Join(parts, <<"/">>)

\* list.index(x) + 1 for an x that is in the list
IndexOf(seq, x) ==
    CHOOSE i \in DOMAIN seq : seq[i] = x /\ \A j \in 1..(i - 1) : seq[j] # x

\* clean_vault_path(path)
clean_vault_path(path) ==
    LET clean_path == StripChars(Replace(PathStr(path), <<BS>>, <<"/">>), {"/"})
        parts == Split(clean_path, "/")
    IN IF \E i \in DOMAIN parts : parts[i] = DATA
       THEN Join(SubSeq(parts, IndexOf(parts, DATA) + 1, Len(parts)), <<"/">>)
       ELSE clean_path

(***************************************************************************)
(* utils.py: get_path_format.  A configuration is                          *)
(*   [environments: name -> sequence of services, has_formats: whether     *)
(*    config['vault'] has the key 'formats', formats: sequence of format   *)
(*    entries in the order of the dict],                                   *)
(* a service is [has_paths, paths], a path entry is                        *)
(*   [is_dict, path, format, has_key, key, has_aws_keys, aws_keys],        *)
(* a format entry is [name, has_aws_keys, aws_keys, path_patterns].        *)
(***************************************************************************)
DefaultAwsKeys == [access_key |-> AWS_ACCESS_KEY_ID, secret_key |-> AWS_SECRET_ACCESS_KEY]

\* all path entries of the services of an environment, in iteration order
RECURSIVE PathEntries(_)
PathEntries(services) ==
    IF services = <<>> THEN <<>>
    ELSE (IF Head(services).has_paths THEN Head(services).paths ELSE <<>>)
         \o PathEntries(Tail(services))

\* the field a matched rule governs (utils.py lines 136-144)
RuleKey(path_config) ==
    IF ~path_config.has_key
    THEN IF path_config.format = "json" THEN SECRETS ELSE DOTENV
    ELSE path_config.key

\* the field a format governs by default (utils.py lines 172-177)
FormatDefaultKey(fmt) == IF fmt = "json" THEN SECRETS ELSE DOTENV

HasFormat(formats, name) == \E i \in DOMAIN formats : formats[i].name = name

FormatEntry(formats, name) == formats[CHOOSE i \in DOMAIN formats : formats[i].name = name]

\* the credential key names of a matched rule (utils.py lines 146-164)
RuleAwsKeys(path_config, formats) ==
    IF path_config.has_aws_keys THEN path_config.aws_keys
    ELSE IF FormatEntry(formats, path_config.format).has_aws_keys
    THEN FormatEntry(formats, path_config.format).aws_keys
    ELSE DefaultAwsKeys

Resolved(fmt, key, aws) ==
    [raised |-> FALSE, format_type |-> fmt, secret_key |-> key, aws_keys |-> aws]

ResolveRaised ==
    [raised |-> TRUE, format_type |-> "none", secret_key |-> NoValue, aws_keys |-> DefaultAwsKeys]

\* get_path_format(config, environment, path)
get_path_format(config, environment, path) ==
    LET clean_path == Replace(path, KV_DATA, <<>>)
        entries == IF environment \in DOMAIN config.environments
                   THEN PathEntries(config.environments[environment]) ELSE <<>>
        hits == {i \in DOMAIN entries :
                    entries[i].is_dict /\ EndsWith(entries[i].path, clean_path)}
        rule == entries[CHOOSE i \in hits : \A j \in hits : i <= j]
        no_table == ~config.has_formats       \* config['vault']['formats'] is a KeyError
        sniffed == {i \in DOMAIN config.formats :
                       \E j \in DOMAIN config.formats[i].path_patterns :
                           Contains(Lower(clean_path), config.formats[i].path_patterns[j])}
        fmt == config.formats[CHOOSE i \in sniffed : \A j \in sniffed : i <= j]
    IN IF environment \notin DOMAIN config.environments THEN ResolveRaised  \* KeyError
       ELSE IF hits # {}
       THEN IF ~rule.has_aws_keys /\ (no_table \/ ~HasFormat(config.formats, rule.format))
            THEN ResolveRaised                                              \* KeyError
            ELSE Resolved(rule.format, RuleKey(rule), RuleAwsKeys(rule, config.formats))
       ELSE IF no_table THEN ResolveRaised                                  \* KeyError
       ELSE IF sniffed # {}
       THEN Resolved(fmt.name, FormatDefaultKey(fmt.name),
                     IF fmt.has_aws_keys THEN fmt.aws_keys ELSE DefaultAwsKeys)
       ELSE Resolved("dotenv_export", DOTENV, DefaultAwsKeys)

(***************************************************************************)
(* utils.py: rotate_secret_kv.  The store maps a cleaned path to the field *)
(* mapping kept there (fields in dict order).  A request is the argument   *)
(* list of one call, with the faults the store client answers with:        *)
(*   [path, mount_point, key_or_dict, value, has_config, config,           *)
(*    environment, read_error, write_error],                               *)
(* where key_or_dict is [is_dict, key, pairs].                             *)
(***************************************************************************)
Sniffed(fmt, key) ==
    [raised |-> FALSE, format_type |-> fmt,
     secret_key |-> IF key # <<>> THEN key ELSE FormatDefaultKey(fmt),
     aws_keys |-> DefaultAwsKeys]

\* one field value against the three content patterns, "" when none fits
SniffValue(v) ==
    IF StartsWith(v, <<"{">>) /\ EndsWith(v, <<"}">>) THEN "json"
    ELSE IF Contains(v, <<"=">>) /\ ~Contains(v, ExportWord) THEN "dotenv_plain"
    ELSE IF Contains(v, ExportWord) THEN "dotenv_export"
    ELSE ""

\* format detection from the content (utils.py lines 230-259)
SniffFormat(current_data) ==
    LET hits == {i \in DOMAIN current_data : SniffValue(current_data[i][2]) # ""}
        first == CHOOSE i \in hits : \A j \in hits : i <= j
    IN IF hits = {} THEN Sniffed("dotenv_export", <<>>)
       ELSE Sniffed(SniffValue(current_data[first][2]), current_data[first][1])

\* next((k for k in keys if k.upper().endswith(suffix)), None), <<>> for None
FirstKeyEnding(d, suffix) ==
    LET hits == {i \in DOMAIN d : EndsWith(Upper(d[i][1]), suffix)}
    IN IF hits = {} THEN <<>> ELSE d[CHOOSE i \in hits : \A j \in hits : i <= j][1]

\* the items of a dict whose keys are not in drop
RECURSIVE ODWithout(_, _)
ODWithout(d, drop) ==
    IF d = <<>> THEN <<>>
    ELSE IF Head(d)[1] \in drop THEN ODWithout(Tail(d), drop)
    ELSE <<Head(d)>> \o ODWithout(Tail(d), drop)

\* one half of the pair for the formats other than dotenv_export
MutantMapHalfAlwaysFresh(upd, pairs, given, existing, fresh) ==
    IF ODHas(pairs, given) THEN ODSet(upd, fresh, ODGet(pairs, given)) ELSE upd

MapHalf(upd, pairs, given, existing, fresh) ==
    IF existing # <<>> /\ ODHas(pairs, given)
    THEN ODSet(upd, existing, ODGet(pairs, given))
    ELSE IF ODHas(pairs, given) THEN ODSet(upd, fresh, ODGet(pairs, given))
    ELSE upd

\* the update set (utils.py lines 272-310)
ComputeUpdates(key_or_dict, value, fmt, aws_keys, current_secrets) ==
    LET pairs == key_or_dict.pairs
        access == MapHalf(<<>>, pairs, AWS_ACCESS_KEY_ID,
                          FirstKeyEnding(current_secrets.value, ACCESS_KEY),
                          IF fmt = "json" THEN S3_ACCESS_KEY ELSE AWS_ACCESS_KEY)
        both == MapHalf(access, pairs, AWS_SECRET_ACCESS_KEY,
                        FirstKeyEnding(current_secrets.value, SECRET_KEY),
                        IF fmt = "json" THEN S3_SECRET_KEY ELSE AWS_SECRET_KEY)
    IN IF ~key_or_dict.is_dict
       THEN [raised |-> FALSE, value |-> <<<<key_or_dict.key, value>>>>]
       ELSE IF fmt = "dotenv_export"
       THEN IF ODHas(pairs, AWS_ACCESS_KEY_ID) /\ ODHas(pairs, AWS_SECRET_ACCESS_KEY)
            THEN [raised |-> FALSE,
                  value |-> ODSet(ODSet(<<>>, aws_keys.access_key,
                                        ODGet(pairs, AWS_ACCESS_KEY_ID)),
                                  aws_keys.secret_key,
                                  ODGet(pairs, AWS_SECRET_ACCESS_KEY))]
            ELSE [raised |-> TRUE, value |-> <<>>]                  \* KeyError
       ELSE IF ~current_secrets.is_dict
       THEN [raised |-> TRUE, value |-> <<>>]                       \* AttributeError
       ELSE [raised |-> FALSE,
             value |-> ODUpdate(both, ODWithout(pairs, {AWS_ACCESS_KEY_ID,
                                                        AWS_SECRET_ACCESS_KEY}))]

\* the locals of a call that raised after the store answered the read
RotationRaised(read) ==
    [raised |-> TRUE, read_status |-> read.status, read_data |-> read.data,
     format_type |-> "none", secret_key |-> NoValue, aws_keys |-> DefaultAwsKeys,
     current_content |-> NoValue, updates |-> <<>>]

\* the answer of the store to read_secret_version and what the handler makes
\* of it (utils.py lines 218-225)
MutantReadCurrentDataNotFoundRaises(st, actual_path, read_error) ==
    IF read_error THEN [raised |-> TRUE, status |-> "error", data |-> <<>>]
    ELSE IF actual_path \in DOMAIN st
    THEN [raised |-> FALSE, status |-> "found", data |-> st[actual_path]]
    ELSE [raised |-> TRUE, status |-> "not_found", data |-> <<>>]

ReadCurrentData(st, actual_path, read_error) ==
    IF read_error THEN [raised |-> TRUE, status |-> "error", data |-> <<>>]
    ELSE IF actual_path \in DOMAIN st
    THEN [raised |-> FALSE, status |-> "found", data |-> st[actual_path]]
    ELSE [raised |-> FALSE, status |-> "not_found", data |-> <<>>]  \* InvalidPath

\* the blob field, initialised when absent (utils.py lines 263-267)
WithBlobField(current_data, secret_key, fmt) ==
    IF ODHas(current_data, secret_key) THEN current_data
    ELSE ODSet(current_data, secret_key, IF fmt = "json" THEN <<"{", "}">> ELSE <<>>)

\* rotate_secret_kv(client, mount_point, path, key_or_dict, value, config,
\* environment): the new store, the writes issued and the final locals
rotate_secret_kv(st, req) ==
    LET actual_path == clean_vault_path(req.path)
        read == ReadCurrentData(st, actual_path, req.read_error)
        resolved == IF req.has_config /\ req.environment # <<>>
                    THEN get_path_format(req.config, req.environment, req.path)
                    ELSE SniffFormat(read.data)
        fmt == resolved.format_type
        secret_key == resolved.secret_key
        current_data == WithBlobField(read.data, secret_key, fmt)
        current_content == ODGet(current_data, secret_key)
        current_secrets == IF current_content # <<>>
                           THEN read_secret(current_content, fmt)
                           ELSE [raised |-> FALSE, is_dict |-> TRUE, value |-> <<>>]
        upd == ComputeUpdates(req.key_or_dict, req.value, fmt, resolved.aws_keys,
                              current_secrets)
        merged == ODUpdate(IF current_secrets.is_dict THEN current_secrets.value
                           ELSE <<>>, upd.value)
        new_content == format_secret(merged, fmt)
        written == ODSet(current_data, secret_key, new_content)
        call == [path |-> actual_path, secret |-> written,
                 mount_point |-> req.mount_point]
        locals == [raised |-> req.write_error, read_status |-> read.status,
                   read_data |-> read.data, format_type |-> fmt,
                   secret_key |-> secret_key, aws_keys |-> resolved.aws_keys,
                   current_content |-> current_content, updates |-> upd.value]
        quiet == [store |-> st, writes |-> <<>>, outcome |-> RotationRaised(read)]
    IN IF read.raised THEN quiet
       ELSE IF resolved.raised THEN quiet
       ELSE IF fmt \notin Formats THEN quiet
       ELSE IF current_secrets.raised THEN quiet
       ELSE IF upd.raised THEN quiet
       ELSE IF fmt # "json" /\ ~current_secrets.is_dict THEN quiet
       ELSE [store |-> IF req.write_error THEN st ELSE DictSet(st, actual_path, written),
             writes |-> <<call>>,
             outcome |-> locals]

(***************************************************************************)
(* Inputs of the rotation.                                                 *)
(***************************************************************************)
PathTest == <<"s", "e", "c", "r", "e", "t", "/", "d", "a", "t", "a", "/", "p", "a", "t", "h", "1">>
PathKv == <<"k", "v", "/", "d", "a", "t", "a", "/", "a", "p", "p", "/", "j", "s", "o", "n">>
PathNoData == <<"s", "e", "c", "r", "e", "t", "/", "/", "p", "a", "t", "h", "1", "/">>
Paths == {PathTest, PathKv, PathNoData}

StorePaths == {<<"p", "a", "t", "h", "1">>, <<"a", "p", "p", "/", "j", "s", "o", "n">>, <<"s", "e", "c", "r", "e", "t", "/", "p", "a", "t", "h", "1">>}

Key1 == <<"k", "e", "y", "1">>
BlobCommented == <<"e", "x", "p", "o", "r", "t", " ", "A", "=", "\"", "1", "\"", "\n", "#", "c", "\n", "e", "x", "p", "o", "r", "t", " ", "B", "=", "2">>
BlobUnsorted == <<"e", "x", "p", "o", "r", "t", " ", "B", "=", "\"", "2", "\"", "\n", "e", "x", "p", "o", "r", "t", " ", "A", "=", "\"", "1", "\"">>
BlobJson == <<"{", "\"", "b", "\"", ":", " ", "\"", "2", "\"", ",", " ", "\"", "a", "\"", ":", " ", "\"", "1", "\"", "}">>
BlobPlain == <<"B", "=", "\n", "A", "=", "1">>
BlobJsonArray == <<"[", "]">>
BlobJsonKeys == <<"{", "\"", "A", "W", "S", "_", "S", "E", "C", "R", "E", "T", "_", "A", "C", "C", "E", "S", "S", "_", "K", "E", "Y", "\"", ":", " ", "\"", "s", "\"", ",", " ", "\"", "M", "Y", "_", "A", "C", "C", "E", "S", "S", "_", "K", "E", "Y", "\"", ":", " ", "\"", "a", "\"", "}">>
BlobPlainKeys == <<"a", "w", "s", "_", "s", "e", "c", "r", "e", "t", "_", "k", "e", "y", "=", "s", "\n", "B", "=", "2">>
BlobNotJson == <<"{", "x", "}">>

FieldMappings ==
    { <<<<Key1, <<"o", "l", "d">>>>>>,
      <<<<DOTENV, BlobCommented>>>>,
      <<<<DOTENV, BlobUnsorted>>>>,
      <<<<SECRETS, BlobJson>>>>,
      <<<<DOTENV, BlobPlain>>>>,
      <<<<Key1, <<"o", "l", "d">>>>, <<DOTENV, <<"e", "x", "p", "o", "r", "t", " ", "A", "=", "\"", "1", "\"">>>>>>,
      <<<<SECRETS, BlobJsonArray>>>>,
      <<<<SECRETS, BlobJsonKeys>>>>,
      <<<<DOTENV, BlobPlain>>, <<SECRETS, BlobJson>>>>,
      <<<<<<>>, BlobJson>>>>,
      <<<<DOTENV, BlobPlainKeys>>>>,
      <<<<SECRETS, BlobNotJson>>>> }

Stores ==
    {EmptyDict} \cup {[p \in StorePaths |-> d] : d \in FieldMappings}
               \cup {[p \in {<<"o", "t", "h", "e", "r">>} |-> <<<<SECRETS, BlobJson>>>>]}

NoPairs == <<>>
CredentialPair == << <<AWS_ACCESS_KEY_ID, <<"A", "K">>>>, <<AWS_SECRET_ACCESS_KEY, <<"S", "K">>>> >>

Rotations ==
    { [key_or_dict |-> [is_dict |-> FALSE, key |-> Key1, pairs |-> NoPairs], value |-> <<"n", "e", "w">>],
      [key_or_dict |-> [is_dict |-> FALSE, key |-> KeyA, pairs |-> NoPairs], value |-> <<"9">>],
      [key_or_dict |-> [is_dict |-> TRUE, key |-> <<>>, pairs |-> CredentialPair], value |-> <<>>] }

Prod == <<"p", "r", "o", "d">>
NoAwsKeys == [access_key |-> <<>>, secret_key |-> <<>>]
S3Keys == [access_key |-> S3_ACCESS_KEY, secret_key |-> S3_SECRET_KEY]

PathEntry(is_dict, path, fmt, has_key, key, has_aws_keys, aws_keys) ==
    [is_dict |-> is_dict, path |-> path, format |-> fmt, has_key |-> has_key,
     key |-> key, has_aws_keys |-> has_aws_keys, aws_keys |-> aws_keys]

FormatTable ==
    << [name |-> "dotenv_export", has_aws_keys |-> FALSE, aws_keys |-> NoAwsKeys,
        path_patterns |-> <<>>],
       [name |-> "json", has_aws_keys |-> TRUE, aws_keys |-> S3Keys,
        path_patterns |-> <<<<"j", "s", "o", "n">>>>],
       [name |-> "dotenv_plain", has_aws_keys |-> FALSE, aws_keys |-> NoAwsKeys,
        path_patterns |-> <<<<"p", "l", "a", "i", "n">>>>] >>

NoConfig == [environments |-> EmptyDict, has_formats |-> FALSE, formats |-> <<>>]

ConfigWith(entry) ==
    [environments |->
        [e \in {Prod} |->
            << [has_paths |-> FALSE, paths |-> <<>>],
               [has_paths |-> TRUE,
                paths |-> << PathEntry(FALSE, PathTest, "none", FALSE, <<>>, FALSE, NoAwsKeys),
                             entry >>] >>],
     has_formats |-> TRUE, formats |-> FormatTable]

ConfigJsonRule ==
    ConfigWith(PathEntry(TRUE, PathTest, "json", FALSE, <<>>, FALSE, NoAwsKeys))

ConfigExportRule ==
    ConfigWith(PathEntry(TRUE, PathTest, "dotenv_export", TRUE, <<"e", "n", "v">>, TRUE, S3Keys))

ConfigPlainRule ==
    ConfigWith(PathEntry(TRUE, PathTest, "dotenv_plain", FALSE, <<>>, FALSE, NoAwsKeys))

Configs ==
    { [has_config |-> FALSE, config |-> NoConfig, environment |-> <<>>],
      [has_config |-> TRUE, config |-> ConfigJsonRule, environment |-> Prod],
      [has_config |-> TRUE, config |-> ConfigPlainRule, environment |-> Prod],
      [has_config |-> TRUE, config |-> ConfigExportRule, environment |-> Prod] }

Requests ==
    { [path |-> p, mount_point |-> <<"s", "e", "c", "r", "e", "t">>, key_or_dict |-> r.key_or_dict,
       value |-> r.value, has_config |-> c.has_config, config |-> c.config,
       environment |-> c.environment, read_error |-> re, write_error |-> we] :
      p \in Paths, r \in Rotations, c \in Configs, re \in BOOLEAN, we \in BOOLEAN }

InitRotateKv ==
    /\ pc = "start"
    /\ store \in Stores
    /\ request \in Requests
    /\ writes = <<>>
    /\ outcome = NoValue
    /\ snapshot = store
    /\ UpdaterIdle
    /\ CodecIdle

RotateSecretKv ==
    /\ pc = "start"
    /\ pc' = "done"
    /\ \E result \in {rotate_secret_kv(store, request)} :
           /\ store' = result.store
           /\ writes' = writes \o result.writes
           /\ outcome' = result.outcome
    /\ UNCHANGED <<request, snapshot, updaterVars, codecVars>>

NextRotateKv == RotateSecretKv

SpecRotateKv == InitRotateKv /\ [][NextRotateKv]_vars

(***************************************************************************)
(* Properties of rotate_secret_kv.                                         *)
(***************************************************************************)
\* the call returned and its one write reached the store
Rotated == pc = "done" /\ ~outcome.raised /\ Len(writes) = 1

\* the blob of the governed field as it was read and as it was written
OldBlob == ODGet(outcome.read_data, outcome.secret_key)
NewBlob == ODGet(writes[1].secret, outcome.secret_key)

\* the keys a blob defines, with their values: the export lines as
\* parse_dotenv_content reads them for the two dotenv formats, the members
\* of the object for JSON
RECURSIVE AsDict(_)
AsDict(d) == IF d = <<>> THEN EmptyDict ELSE DictSet(AsDict(Tail(d)), d[1][1], d[1][2])

BlobEntries(text, fmt) ==
    IF fmt = "json"
    THEN IF json_loads(text).is_dict THEN AsDict(json_loads(text).value) ELSE EmptyDict
    ELSE parse_dotenv_content(text)

\* the keys of a dotenv blob in the order of their lines
RECURSIVE KeyOrder(_)
KeyOrder(lines) ==
    IF lines = <<>> THEN <<>>
    ELSE (IF DOMAIN parse_dotenv_content(Head(lines)) = {} THEN <<>>
          ELSE <<CHOOSE k \in DOMAIN parse_dotenv_content(Head(lines)) : TRUE>>)
         \o KeyOrder(Tail(lines))

CommentLines(text) ==
    {l \in {Split(text, "\n")[i] : i \in DOMAIN Split(text, "\n")} :
        Strip(l) = <<>> \/ StartsWith(Strip(l), <<"#">>)}

\* a rotation of an existing, non-empty blob
RotatedBlob == Rotated /\ ODHas(outcome.read_data, outcome.secret_key) /\ OldBlob # <<>>

UnrelatedKeysKept ==
    RotatedBlob =>
        \A k \in DOMAIN BlobEntries(OldBlob, outcome.format_type) \ ODKeys(outcome.updates) :
            /\ k \in DOMAIN BlobEntries(NewBlob, outcome.format_type)
            /\ BlobEntries(NewBlob, outcome.format_type)[k]
                   = BlobEntries(OldBlob, outcome.format_type)[k]

CommentsKept ==
    RotatedBlob /\ outcome.format_type # "json" =>
        CommentLines(OldBlob) \subseteq CommentLines(NewBlob)

KeyOrderKept ==
    RotatedBlob /\ outcome.format_type # "json" =>
        \A i, j \in DOMAIN KeyOrder(Split(OldBlob, "\n")) :
            LET old == KeyOrder(Split(OldBlob, "\n"))
                new == KeyOrder(Split(NewBlob, "\n"))
            IN (i < j /\ old[i] # old[j]
                      /\ (\E a \in DOMAIN new : new[a] = old[i])
                      /\ (\E b \in DOMAIN new : new[b] = old[j]))
               => IndexOf(new, old[i]) < IndexOf(new, old[j])

\* C8: a rotation preserves the unrelated content of the blob: every key
\* of the original blob that is not updated is still there with its value,
\* and the comments, the blank lines and the order of the keys are kept.
C8_UnrelatedContentPreserved == UnrelatedKeysKept /\ CommentsKept /\ KeyOrderKept

\* the path with everything up to and including the data segment removed
AfterDataSegment(path) ==
    LET parts == Split(path, "/")
    IN Join(SubSeq(parts, IndexOf(parts, DATA) + 1, Len(parts)), <<"/">>)

HasDataSegment(path) == \E i \in DOMAIN Split(path, "/") : Split(path, "/")[i] = DATA

\* a call with a single key and no configuration, answered without a fault,
\* on a secret that holds the key as a plain field
PlainFieldRotation ==
    /\ pc = "done"
    /\ ~request.key_or_dict.is_dict
    /\ ~request.has_config
    /\ ~request.read_error /\ ~request.write_error
    /\ HasDataSegment(request.path)
    /\ outcome.read_status = "found"
    /\ ODHas(outcome.read_data, request.key_or_dict.key)

\* C9: rotating a single key that the secret holds as a plain field issues
\* exactly one write, to the path after the data segment, and the written
\* mapping is the mapping read with only that field changed to the value.
C9_PlainFieldRotated ==
    PlainFieldRotation =>
        /\ Len(writes) = 1
        /\ writes[1].path = AfterDataSegment(request.path)
        /\ ODEq(writes[1].secret,
                ODSet(outcome.read_data, request.key_or_dict.key, request.value))

\* the update set a call asks for: the single key, or the pair under the
\* names of the format
ExpectedUpdates ==
    IF ~request.key_or_dict.is_dict
    THEN <<<<request.key_or_dict.key, request.value>>>>
    ELSE LET access == ODGet(request.key_or_dict.pairs, AWS_ACCESS_KEY_ID)
             secret == ODGet(request.key_or_dict.pairs, AWS_SECRET_ACCESS_KEY)
         IN IF outcome.format_type = "dotenv_export"
            THEN <<<<outcome.aws_keys.access_key, access>>,
                   <<outcome.aws_keys.secret_key, secret>>>>
            ELSE IF outcome.format_type = "json"
            THEN <<<<S3_ACCESS_KEY, access>>, <<S3_SECRET_KEY, secret>>>>
            ELSE <<<<AWS_ACCESS_KEY, access>>, <<AWS_SECRET_KEY, secret>>>>

\* the store answered the read with not found and accepts the write
Provisioning ==
    pc = "done" /\ outcome.read_status = "not_found" /\ ~request.write_error

Paths_helios_prod ==
    <<
      <<"k", "v", "/", "e", "n", "g", "i", "n", "e", "e", "r", "i", "n", "g",
        "/", "v", "1", "/", "a", "i", "r", "f", "l", "o", "w", "/", "d", "a",
        "t", "a", "-", "e", "n", "g", "i", "n", "e", "e", "r", "i", "n", "g",
        "/", "c", "i", "e", "-", "i", "n", "f", "e", "r", "e", "n", "c", "e">>,
      <<"k", "v", "/", "e", "n", "g", "i", "n", "e", "e", "r", "i", "n", "g",
        "/", "v", "1", "/", "a", "i", "r", "f", "l", "o", "w", "/", "d", "a",
        "t", "a", "-", "e", "n", "g", "i", "n", "e", "e", "r", "i", "n", "g",
        "/", "h", "e", "l", "i", "o", "s">>,
      <<"k", "v", "/", "e", "n", "g", "i", "n", "e", "e", "r", "i", "n", "g",
        "/", "v", "1", "/", "a", "i", "r", "f", "l", "o", "w", "/", "d", "a",
        "t", "a", "-", "e", "n", "g", "i", "n", "e", "e", "r", "i", "n", "g",
        "/", "m", "o", "d", "e", "l", "-", "s", "e", "r", "v", "i", "c", "e">>,
      <<"k", "v", "/", "e", "n", "g", "i", "n", "e", "e", "r", "i", "n", "g",
        "/", "v", "1", "/", "c", "2", "f", "o", "-", "c", "h", "a", "t", "/",
        "d", "a", "t", "a", "-", "e", "n", "g", "i", "n", "e", "e", "r", "i",
        "n", "g", "/", "c", "h", "a", "t", "-", "e", "n", "v">>,
      <<"k", "v", "/", "e", "n", "g", "i", "n", "e", "e", "r", "i", "n", "g",
        "/", "e", "c", "2", "/", "d", "a", "t", "a", "-", "e", "n", "g", "i",
        "n", "e", "e", "r", "i", "n", "g", "/", "a", "t", "l", "a", "s", "-",
        "s", "p", "a", "r", "k", "-", "a", "p", "p", "s", "/", "h", "e", "l",
        "i", "o", "s">>,
      <<"k", "v", "/", "e", "n", "g", "i", "n", "e", "e", "r", "i", "n", "g",
        "/", "e", "c", "2", "/", "d", "a", "t", "a", "-", "e", "n", "g", "i",
        "n", "e", "e", "r", "i", "n", "g", "/", "h", "e", "l", "i", "o", "s",
        "/", "s", "e", "c", "r", "e", "t", "s">>
    >>

Paths_helios_non_prod ==
    <<
      <<"k", "v", "/", "e", "n", "g", "i", "n", "e", "e", "r", "i", "n", "g",
        "/", "v", "1", "/", "f", "s", "s", "-", "c", "2", "f", "o", "-", "c",
        "h", "a", "t", "/", "d", "a", "t", "a", "-", "e", "n", "g", "i", "n",
        "e", "e", "r", "i", "n", "g", "/", "c", "h", "a", "t", "-", "e", "n",
        "v">>
    >>

Paths_pricing_prod ==
    <<
      <<"k", "v", "/", "e", "n", "g", "i", "n", "e", "e", "r", "i", "n", "g",
        "/", "v", "1", "/", "d", "u", "m", "m", "y", "-", "s", "h", "a", "d",
        "o", "w", "-", "p", "r", "i", "c", "i", "n", "g", "-", "s", "e", "r",
        "v", "i", "c", "e", "/", "d", "a", "t", "a", "-", "e", "n", "g", "i",
        "n", "e", "e", "r", "i", "n", "g", "/", "p", "r", "i", "c", "i", "n",
        "g", "-", "e", "n", "v">>,
      <<"k", "v", "/", "e", "n", "g", "i", "n", "e", "e", "r", "i", "n", "g",
        "/", "v", "1", "/", "n", "m", "r", "-", "s", "h", "a", "d", "o", "w",
        "-", "p", "r", "i", "c", "i", "n", "g", "-", "s", "e", "r", "v", "i",
        "c", "e", "/", "d", "a", "t", "a", "-", "e", "n", "g", "i", "n", "e",
        "e", "r", "i", "n", "g", "/", "p", "r", "i", "c", "i", "n", "g", "-",
        "e", "n", "v">>,
      <<"k", "v", "/", "e", "n", "g", "i", "n", "e", "e", "r", "i", "n", "g",
        "/", "v", "1", "/", "p", "r", "i", "c", "i", "n", "g", "-", "s", "e",
        "r", "v", "i", "c", "e", "/", "d", "a", "t", "a", "-", "e", "n", "g",
        "i", "n", "e", "e", "r", "i", "n", "g", "/", "p", "r", "i", "c", "i",
        "n", "g", "-", "e", "n", "v">>,
      <<"k", "v", "/", "e", "n", "g", "i", "n", "e", "e", "r", "i", "n", "g",
        "/", "v", "1", "/", "p", "r", "o", "d", "-", "p", "r", "i", "c", "i",
        "n", "g", "-", "s", "e", "r", "v", "i", "c", "e", "/", "d", "a", "t",
        "a", "-", "e", "n", "g", "i", "n", "e", "e", "r", "i", "n", "g", "/",
        "p", "r", "i", "c", "i", "n", "g", "-", "e", "n", "v">>,
      <<"k", "v", "/", "e", "n", "g", "i", "n", "e", "e", "r", "i", "n", "g",
        "/", "v", "1", "/", "p", "s", "-", "s", "h", "a", "d", "o", "w", "-",
        "p", "r", "i", "c", "i", "n", "g", "-", "s", "e", "r", "v", "i", "c",
        "e", "/", "d", "a", "t", "a", "-", "e", "n", "g", "i", "n", "e", "e",
        "r", "i", "n", "g", "/", "p", "r", "i", "c", "i", "n", "g", "-", "e",
        "n", "v">>,
      <<"k", "v", "/", "e", "n", "g", "i", "n", "e", "e", "r", "i", "n", "g",
        "/", "v", "1", "/", "s", "h", "a", "d", "o", "w", "-", "p", "r", "i",
        "c", "i", "n", "g", "-", "s", "e", "r", "v", "i", "c", "e", "/", "d",
        "a", "t", "a", "-", "e", "n", "g", "i", "n", "e", "e", "r", "i", "n",
        "g", "/", "p", "r", "i", "c", "i", "n", "g", "-", "e", "n", "v">>
    >>

Paths_pricing_non_prod ==
    <<
      <<"k", "v", "/", "e", "n", "g", "i", "n", "e", "e", "r", "i", "n", "g",
        "/", "v", "1", "/", "f", "s", "s", "-", "p", "r", "i", "c", "i", "n",
        "g", "-", "s", "e", "r", "v", "i", "c", "e", "/", "d", "a", "t", "a",
        "-", "e", "n", "g", "i", "n", "e", "e", "r", "i", "n", "g", "/", "p",
        "r", "i", "c", "i", "n", "g", "-", "e", "n", "v">>
    >>

VAULT_PATHS ==
    [app \in {"helios", "pricing"} |->
        [env \in {"prod", "non_prod"} |->
            IF app = "helios"
            THEN IF env = "prod" THEN Paths_helios_prod ELSE Paths_helios_non_prod
            ELSE IF env = "prod" THEN Paths_pricing_prod ELSE Paths_pricing_non_prod]]

\* get_paths(app, env): the list, or the ValueError of an unknown name
get_paths(app, env) ==
    IF app \notin DOMAIN VAULT_PATHS THEN [raised |-> TRUE, paths |-> <<>>]
    ELSE IF env \notin DOMAIN VAULT_PATHS[app] THEN [raised |-> TRUE, paths |-> <<>>]
    ELSE [raised |-> FALSE, paths |-> VAULT_PATHS[app][env]]

(***************************************************************************)
(* vault_utils.py: validate_vault_path.  It returns a pair (valid,         *)
(* message); the message is kept as its kind and the text the kind is      *)
(* filled with.  The table VAULT_CONFIG it reads is an argument:           *)
(*   [VALID_PATH_PREFIXES: sequence of texts, DATA_PATH_SEGMENT: text].    *)
(***************************************************************************)
Validated == [valid |-> TRUE, message |-> [kind |-> "none", detail |-> <<>>]]

Rejected(kind, detail) == [valid |-> FALSE, message |-> [kind |-> kind, detail |-> detail]]

validate_vault_path(path, vault_config) ==
    IF path = <<>> THEN Rejected("empty", <<>>)
    ELSE IF ~\E i \in DOMAIN vault_config.VALID_PATH_PREFIXES :
                StartsWith(path, vault_config.VALID_PATH_PREFIXES[i])
    THEN Rejected("prefix", vault_config.VALID_PATH_PREFIXES)
    ELSE IF ~Contains(path, vault_config.DATA_PATH_SEGMENT)
    THEN Rejected("data", <<Replace(Replace(path, <<"/", "s", "e", "c", "r", "e", "t", "/">>, <<"/", "s", "e", "c", "r", "e", "t", "/", "d", "a", "t", "a", "/">>),
                                    <<"/", "k", "v", "/">>, <<"/", "k", "v", "/", "d", "a", "t", "a", "/">>)>>)
    ELSE Validated

(***************************************************************************)
(* rotate_secrets.py: VaultSecretRotator.rotate_secret.  The value of      *)
(* validate_vault_path replaces path, so the pair it returns is what the   *)
(* store is asked for: the store of this part maps such pairs to field     *)
(* mappings.  A field value is a text or None (NoValue).                   *)
(***************************************************************************)
\* json.loads(new_value) when it is not an object: "falsy" for the empty
\* array, the empty string, false and null, "scalar" for a number or true,
\* "text" for a string that is not empty
NonDictKind(text) ==
    LET i == SkipChars(text, 1, JsonSpace)
    IN IF text[i] \in {"[", "f", "n"} THEN "falsy"
       ELSE IF text[i] = "\"" THEN IF JsonStringAt(text, i).value = <<>>
                                  THEN "falsy" ELSE "text"
       ELSE "scalar"

\* the keys of the export lines of a text, as the loop of the updater
\* computes them
ExportKeys(text) ==
    {Strip(SplitOnce(SubSeq(Strip(LinesOf(text)[i]), Len(ExportPrefix) + 1,
                            Len(Strip(LinesOf(text)[i]))), "=")[1]) :
        i \in {j \in DOMAIN LinesOf(text) :
                  StartsWith(Strip(LinesOf(text)[j]), ExportPrefix)}}

\* update_dotenv_content(text, updates) for updates that are not a dict:
\* a falsy value returns at once, the membership test raises TypeError for
\* a scalar, and for a text it is a substring test followed by a TypeError
UpdateWithNonDict(text, new_value) ==
    LET kind == NonDictKind(new_value)
        word == JsonStringAt(new_value, SkipChars(new_value, 1, JsonSpace)).value
        raises == IF kind = "scalar" THEN ExportKeys(text) # {}
                  ELSE \E k \in ExportKeys(text) : Contains(word, k)
    IN IF text = <<>> \/ kind = "falsy"
       THEN [raised |-> FALSE, text |-> text, old |-> EmptyDict]
       ELSE IF raises THEN [raised |-> TRUE, text |-> NoValue, old |-> EmptyDict]
       ELSE [raised |-> FALSE, text |-> Join(LinesOf(text), NL), old |-> EmptyDict]

\* a returned value with its type: "none", "str", "dict", or "json" for
\* what json.loads made of a text that is not an object
Val(kind, value) == [kind |-> kind, value |-> value]

None == Val("none", <<>>)

\* a field value as a returned value
FieldVal(v) == IF v = NoValue THEN None ELSE Val("str", v)

\* the pair a failed rotation returns
Nothing(st) == [store |-> st, writes |-> <<>>, old_value |-> None, new_value |-> None]

\* the write and the return of both branches (rotate_secrets.py lines 90-99
\* and 110-118)
MutantWriteBackRetries(st, address, secret, old_value, new_value, fault) ==
    IF fault = "write"
    THEN [store |-> st,
          writes |-> <<[path |-> address, secret |-> secret],
                       [path |-> address, secret |-> secret]>>,
          old_value |-> None, new_value |-> None]
    ELSE [store |-> DictSet(st, address, secret),
          writes |-> <<[path |-> address, secret |-> secret]>>,
          old_value |-> old_value, new_value |-> new_value]

WriteBack(st, address, secret, old_value, new_value, fault) ==
    IF fault = "write"
    THEN [store |-> st, writes |-> <<[path |-> address, secret |-> secret]>>,
          old_value |-> None, new_value |-> None]
    ELSE [store |-> DictSet(st, address, secret),
          writes |-> <<[path |-> address, secret |-> secret]>>,
          old_value |-> old_value, new_value |-> new_value]

\* the branch for dotenv content (rotate_secrets.py lines 72-99)
RotateDotenvValue(st, address, current_data, key, new_value, fault) ==
    LET parsed == json_loads(new_value)
        updated == IF parsed.is_dict
                   THEN update_dotenv_content(ODGet(current_data, key), AsDict(parsed.value))
                   ELSE UpdateWithNonDict(ODGet(current_data, key), new_value)
    IN IF new_value = <<>> \/ new_value = NoValue THEN Nothing(st)
       ELSE IF parsed.raised THEN Nothing(st)
       ELSE IF updated.raised THEN Nothing(st)
       ELSE WriteBack(st, address, ODSet(current_data, key, updated.text),
                      Val("dict", updated.old),
                      IF parsed.is_dict THEN Val("dict", AsDict(parsed.value))
                      ELSE Val("json", new_value), fault)

\* the branch for a regular value (rotate_secrets.py lines 102-118)
RotatePlainValue(st, address, current_data, key, new_value, fault) ==
    IF new_value = <<>> \/ new_value = NoValue THEN Nothing(st)
    ELSE WriteBack(st, address, ODSet(current_data, key, new_value),
                   FieldVal(ODGet(current_data, key)), Val("str", new_value), fault)

\* rotate_secret(path, key, new_value): the new store, the writes issued
\* and the pair returned; fault is how the store answers this call
MutantRotateSecretAddsKey(st, path, key, new_value, vault_config, fault) ==
    LET address == validate_vault_path(path, vault_config)
    IN IF fault = "read" \/ address \notin DOMAIN st THEN Nothing(st)
       ELSE IF ~ODHas(st[address], key)
       THEN IF new_value = <<>> THEN Nothing(st)
            ELSE WriteBack(st, address, ODSet(st[address], key, new_value),
                           Val("str", <<>>), Val("str", new_value), fault)
       ELSE IF ODGet(st[address], key) # NoValue /\ Contains(ODGet(st[address], key), NL)
       THEN RotateDotenvValue(st, address, st[address], key, new_value, fault)
       ELSE RotatePlainValue(st, address, st[address], key, new_value, fault)

rotate_secret(st, path, key, new_value, vault_config, fault) ==
    LET address == validate_vault_path(path, vault_config)
    IN IF fault = "read" \/ address \notin DOMAIN st THEN Nothing(st)
       ELSE IF ~ODHas(st[address], key) THEN Nothing(st)
       ELSE IF ODGet(st[address], key) # NoValue /\ Contains(ODGet(st[address], key), NL)
       THEN RotateDotenvValue(st, address, st[address], key, new_value, fault)
       ELSE RotatePlainValue(st, address, st[address], key, new_value, fault)

(***************************************************************************)
(* rotate_secrets.py: rotate_secrets_for_app.  The request is              *)
(*   [app, env, key, new_value, vault_config, faults],                     *)
(* faults[i] being how the store answers the call for the i-th path:       *)
(* "none", "read" (the read raises) or "write" (the write raises).         *)
(***************************************************************************)
\* one entry of the result list (rotate_secrets.py lines 135-140)
ResultEntry(path, returned) ==
    [path |-> path,
     success |-> returned.old_value.kind # "none" /\ returned.new_value.kind # "none",
     old_value |-> returned.old_value,
     new_value |-> returned.new_value]

BatchPaths == get_paths(request.app, request.env).paths

MaxFaulty == 1

Faults == {"none", "read", "write"}

FaultPlans(n) ==
    {f \in [1..n -> Faults] : Cardinality({i \in 1..n : f[i] # "none"}) <= MaxFaulty}

Apps == {"helios", "pricing", "atlas"}
Envs == {"prod", "non_prod", "staging"}

VaultConfigs ==
    { [VALID_PATH_PREFIXES |-> <<<<"k", "v", "/">>, <<"s", "e", "c", "r", "e", "t", "/">>>>, DATA_PATH_SEGMENT |-> <<"d", "a", "t", "a">>],
      [VALID_PATH_PREFIXES |-> <<<<"k", "v", "/">>, <<"s", "e", "c", "r", "e", "t", "/">>>>, DATA_PATH_SEGMENT |-> <<"/", "d", "a", "t", "a", "/">>],
      [VALID_PATH_PREFIXES |-> <<<<"s", "e", "c", "r", "e", "t", "/">>>>, DATA_PATH_SEGMENT |-> <<"/", "d", "a", "t", "a", "/">>] }

BatchValues == {<<"{", "\"", "A", "\"", ":", " ", "\"", "9", "\"", "}">>, <<"n", "e", "w">>, <<>>, <<"[", "]">>, <<"7">>, <<"\"", "A", "\"">>}

BlobTwoLines == <<"e", "x", "p", "o", "r", "t", " ", "A", "=", "\"", "1", "\"", "\n", "#", "c">>

BatchMappings ==
    { <<<<Key1, <<"o", "l", "d">>>>>>,
      <<<<Key1, BlobTwoLines>>>>,
      <<<<<<"o", "t", "h", "e", "r">>, <<"x">>>>>>,
      <<<<Key1, NoValue>>>> }

BatchRequests ==
    { [app |-> a, env |-> e, key |-> Key1, new_value |-> v, vault_config |-> c,
       faults |-> f] :
      a \in Apps, e \in Envs, v \in BatchValues, c \in VaultConfigs,
      f \in FaultPlans(6) }

\* the pairs the store is asked for during the batch
Addresses(req) ==
    {validate_vault_path(get_paths(req.app, req.env).paths[i], req.vault_config) :
        i \in DOMAIN get_paths(req.app, req.env).paths}

FirstAddress(req) ==
    {validate_vault_path(get_paths(req.app, req.env).paths[i], req.vault_config) :
        i \in DOMAIN get_paths(req.app, req.env).paths \cap {1}}

BatchStores(req) ==
    {EmptyDict} \cup {[a \in Addresses(req) |-> d] : d \in BatchMappings}
               \cup {[a \in FirstAddress(req) |-> <<<<Key1, <<"o", "l", "d">>>>>>]}

InitBatch ==
    /\ pc = "start"
    /\ request \in {r \in BatchRequests :
                       \A i \in DOMAIN r.faults :
                           i > Len(get_paths(r.app, r.env).paths) => r.faults[i] = "none"}
    /\ store \in BatchStores(request)
    /\ snapshot = store
    /\ writes = <<>>
    /\ outcome = NoValue
    /\ UpdaterIdle
    /\ CodecIdle

\* paths = get_paths(app, env); results = []
GetPaths ==
    /\ pc = "start"
    /\ pc' = IF get_paths(request.app, request.env).raised THEN "raised" ELSE "loop"
    /\ outcome' = [raised |-> get_paths(request.app, request.env).raised, results |-> <<>>]
    /\ UNCHANGED <<store, request, writes, snapshot, updaterVars, codecVars>>

\* one turn of the loop: rotate_secret for the next path, then the append
RotateNextPath ==
    /\ pc = "loop"
    /\ Len(outcome.results) < Len(BatchPaths)
    /\ \E returned \in {rotate_secret(store, BatchPaths[Len(outcome.results) + 1],
                                      request.key, request.new_value,
                                      request.vault_config,
                                      request.faults[Len(outcome.results) + 1])} :
           /\ store' = returned.store
           /\ writes' = writes \o returned.writes
           /\ outcome' = [outcome EXCEPT !.results =
                             Append(@, ResultEntry(BatchPaths[Len(outcome.results) + 1],
                                                   returned))]
    /\ UNCHANGED <<pc, request, snapshot, updaterVars, codecVars>>

\* return results
ReturnResults ==
    /\ pc = "loop"
    /\ Len(outcome.results) = Len(BatchPaths)
    /\ pc' = "done"
    /\ UNCHANGED <<store, request, writes, outcome, snapshot, updaterVars, codecVars>>

NextBatch == GetPaths \/ RotateNextPath \/ ReturnResults

SpecBatch == InitBatch /\ [][NextBatch]_vars

(***************************************************************************)
(* Properties of rotate_secrets_for_app.                                   *)
(***************************************************************************)
\* the batch of the request run from store st on with the fault plan
\* faults, from the i-th path on: the result list and the store it leaves
RECURSIVE RunFrom(_, _, _, _)
RunFrom(st, i, faults, acc) ==
    IF i > Len(BatchPaths) THEN [results |-> acc, store |-> st]
    ELSE LET returned == rotate_secret(st, BatchPaths[i], request.key,
                                       request.new_value, request.vault_config,
                                       faults[i])
         IN RunFrom(returned.store, i + 1, faults,
                    Append(acc, ResultEntry(BatchPaths[i], returned)))

SameVal(a, b) == a.kind = b.kind /\ a.value = b.value

SameEntry(a, b) ==
    /\ a.path = b.path
    /\ a.success = b.success
    /\ SameVal(a.old_value, b.old_value)
    /\ SameVal(a.new_value, b.new_value)

\* what the store holds for the i-th path of the batch
StoredFor(st, i) ==
    LET address == validate_vault_path(BatchPaths[i], request.vault_config)
    IN IF address \in DOMAIN st THEN <<st[address]>> ELSE <<>>

OneOutcomePerPath ==
    pc = "done" =>
        /\ Len(outcome.results) = Len(BatchPaths)
        /\ \A i \in DOMAIN BatchPaths : outcome.results[i].path = BatchPaths[i]

\* had the store answered the call for path j in another way, every other
\* path would have the same outcome and the same content in the store
FailureIsolated ==
    pc = "done" =>
        \A j \in DOMAIN BatchPaths : \A g \in Faults :
            LET other == RunFrom(snapshot, 1, [request.faults EXCEPT ![j] = g], <<>>)
            IN \A i \in DOMAIN BatchPaths \ {j} :
                   /\ SameEntry(other.results[i], outcome.results[i])
                   /\ StoredFor(other.store, i) = StoredFor(store, i)

Turn == Len(outcome.results) + 1

InTurn == pc = "loop" /\ Turn <= Len(BatchPaths)

TurnAddress == validate_vault_path(BatchPaths[Turn], request.vault_config)

KeyMissing == TurnAddress \in DOMAIN store /\ ~ODHas(store[TurnAddress], request.key)

C12_FaultWitness ==
    /\ pc = "done"
    /\ Len(BatchPaths) = 6
    /\ request.faults[1] = "write"
    /\ Len(writes) = 6
    /\ ~outcome.results[1].success
    /\ outcome.results[2].success

(***************************************************************************)
(* get_path_format on its own: configurations whose path rules, path       *)
(* patterns and defaults disagree, resolved for paths and environments.    *)
(***************************************************************************)
Dev == <<"d", "e", "v">>
Yaml == "yaml"
EnvField == <<"e", "n", "v">>
RulePath == <<"t", "e", "a", "m", "/", "a", "p", "p", "/", "j", "s", "o", "n">>
PathPlain == <<"k", "v", "/", "d", "a", "t", "a", "/", "a", "p", "p", "/", "p", "l", "a", "i", "n">>
PathUpper == <<"k", "v", "/", "d", "a", "t", "a", "/", "A", "p", "p", "/", "J", "S", "O", "N">>
PathOther == <<"k", "v", "/", "d", "a", "t", "a", "/", "a", "p", "p", "/", "x">>
ResolverPaths == {PathKv, PathPlain, PathUpper, PathOther, PathTest}
ResolverEnvironments == {Prod, Dev}

\* a path given as a plain string, as in test_rotate_flow.py
StringEntry == PathEntry(FALSE, PathTest, "none", FALSE, <<>>, FALSE, NoAwsKeys)

FirstRules ==
    { StringEntry,
      PathEntry(TRUE, RulePath, "dotenv_plain", FALSE, <<>>, FALSE, NoAwsKeys),
      PathEntry(TRUE, RulePath, "dotenv_export", TRUE, EnvField, TRUE, S3Keys),
      PathEntry(TRUE, RulePath, "json", TRUE, EnvField, FALSE, NoAwsKeys),
      PathEntry(TRUE, RulePath, Yaml, FALSE, <<>>, FALSE, NoAwsKeys),
      PathEntry(TRUE, RulePath, Yaml, FALSE, <<>>, TRUE, S3Keys) }

SecondRules ==
    { StringEntry,
      PathEntry(TRUE, <<"a", "p", "p", "/", "j", "s", "o", "n">>, "json", FALSE, <<>>, FALSE, NoAwsKeys) }

PlainKeys == [access_key |-> AWS_ACCESS_KEY, secret_key |-> AWS_SECRET_KEY]

\* the patterns of two formats occur in the same path, dotenv_plain first
FormatTableOverlap ==
    << [name |-> "dotenv_plain", has_aws_keys |-> TRUE, aws_keys |-> PlainKeys,
        path_patterns |-> <<<<"p", "l", "a", "i", "n">>, <<"a", "p", "p">>>>],
       [name |-> "json", has_aws_keys |-> FALSE, aws_keys |-> NoAwsKeys,
        path_patterns |-> <<<<"j", "s", "o", "n">>>>] >>

FormatTables ==
    { [has_formats |-> TRUE, formats |-> FormatTable],
      [has_formats |-> TRUE, formats |-> FormatTableOverlap],
      [has_formats |-> TRUE, formats |-> <<>>],
      [has_formats |-> FALSE, formats |-> <<>>] }

ResolverConfigs ==
    { [environments |->
          [e \in {Prod} |->
              << [has_paths |-> FALSE, paths |-> <<>>],
                 [has_paths |-> TRUE, paths |-> <<StringEntry, first, second>>] >>],
       has_formats |-> t.has_formats, formats |-> t.formats] :
      first \in FirstRules, second \in SecondRules, t \in FormatTables }

InitResolver ==
    /\ pc = "start"
    /\ request \in [config : ResolverConfigs, environment : ResolverEnvironments,
                    path : ResolverPaths]
    /\ outcome = NoValue
    /\ store = EmptyDict
    /\ writes = <<>>
    /\ snapshot = EmptyDict
    /\ UpdaterIdle
    /\ CodecIdle

GetPathFormat ==
    /\ pc = "start"
    /\ pc' = "done"
    /\ outcome' = get_path_format(request.config, request.environment, request.path)
    /\ UNCHANGED <<store, request, writes, snapshot, updaterVars, codecVars>>

NextResolver == GetPathFormat

SpecResolver == InitResolver /\ [][NextResolver]_vars

(***************************************************************************)
(* Properties of get_path_format.                                          *)
(***************************************************************************)
\* the path with the mount point and data segment taken off
NormalizedPath == Replace(request.path, KV_DATA, <<>>)

\* the path entries configured for the environment of the request
ConfiguredEntries ==
    IF request.environment \in DOMAIN request.config.environments
    THEN PathEntries(request.config.environments[request.environment])
    ELSE <<>>

\* the explicit path rules the path matches: the rule's path ends with it
MatchingRules ==
    {i \in DOMAIN ConfiguredEntries :
        /\ ConfiguredEntries[i].is_dict
        /\ EndsWith(ConfiguredEntries[i].path, NormalizedPath)}

FirstMatchingRule == ConfiguredEntries[CHOOSE i \in MatchingRules : \A j \in MatchingRules : i <= j]

\* the configured formats one of whose patterns occurs in the lower-cased path
MatchingFormats ==
    IF ~request.config.has_formats THEN {}
    ELSE {i \in DOMAIN request.config.formats :
             \E j \in DOMAIN request.config.formats[i].path_patterns :
                 Contains(Lower(NormalizedPath), request.config.formats[i].path_patterns[j])}

FirstMatchingFormat ==
    request.config.formats[CHOOSE i \in MatchingFormats : \A j \in MatchingFormats : i <= j]

\* the field of a rule: its key, or the field its format has by convention
FieldOfRule(rule) ==
    IF rule.has_key THEN rule.key
    ELSE IF rule.format = "json" THEN SECRETS ELSE DOTENV

GlobalDefault ==
    /\ ~outcome.raised
    /\ outcome.format_type = "dotenv_export"
    /\ outcome.secret_key = DOTENV
    /\ outcome.aws_keys = [access_key |-> AWS_ACCESS_KEY_ID,
                           secret_key |-> AWS_SECRET_ACCESS_KEY]

\* C13: for every configuration, environment and path the resolver returns
\* the format and field of the matching path rule when one exists, else the
\* format whose path pattern occurs in the normalized path, else the global
\* default
C13_ResolverPrecedence ==
    pc = "done" =>
    /\ MatchingRules # {} =>
           /\ ~outcome.raised
           /\ outcome.format_type = FirstMatchingRule.format
           /\ outcome.secret_key = FieldOfRule(FirstMatchingRule)
    /\ (MatchingRules = {} /\ MatchingFormats # {}) =>
           /\ ~outcome.raised
           /\ outcome.format_type = FirstMatchingFormat.name
    /\ (MatchingRules = {} /\ MatchingFormats = {}) => GlobalDefault

\* the credential key names configured for a format, if any
ConfiguredFormatKeys(fmt) ==
    IF request.config.has_formats /\ HasFormat(request.config.formats, fmt)
       /\ FormatEntry(request.config.formats, fmt).has_aws_keys
    THEN <<FormatEntry(request.config.formats, fmt).aws_keys>>
    ELSE <<>>

\* C14: for a path matched by a rule the resolver returns the rule's own
\* credential key names when present, else the names configured for the
\* rule's format when present, else AWS_ACCESS_KEY_ID / AWS_SECRET_ACCESS_KEY
C14_CredentialKeyNamePrecedence ==
    (pc = "done" /\ MatchingRules # {}) =>
    /\ ~outcome.raised
    /\ outcome.aws_keys =
           IF FirstMatchingRule.has_aws_keys THEN FirstMatchingRule.aws_keys
           ELSE IF ConfiguredFormatKeys(FirstMatchingRule.format) # <<>>
           THEN ConfiguredFormatKeys(FirstMatchingRule.format)[1]
           ELSE [access_key |-> AWS_ACCESS_KEY_ID, secret_key |-> AWS_SECRET_ACCESS_KEY]

\* C15: for every path and environment that no configured rule and no
\* pattern matches, the resolver does not fail and returns dotenv_export,
\* field dotenv, and the names AWS_ACCESS_KEY_ID and AWS_SECRET_ACCESS_KEY
C15_GlobalDefaultWithoutError ==
    (pc = "done" /\ MatchingRules = {} /\ MatchingFormats = {}) => GlobalDefault

(***************************************************************************)
(* Properties of the format detection of rotate_secret_kv.                 *)
(***************************************************************************)
\* the call had no configuration to resolve with and reached its write
ContentOnly ==
    /\ pc = "done"
    /\ ~(request.has_config /\ request.environment # <<>>)
    /\ writes # <<>>

JsonObjectShaped(v) == Len(v) > 0 /\ Head(v) = "{" /\ v[Len(v)] = "}"

HasEquals(v) == \E i \in DOMAIN v : v[i] = "="

HasExport(v) == \E i \in 1..(Len(v) - 5) : SubSeq(v, i, i + 5) = <<"e", "x", "p", "o", "r", "t">>

\* the format a field value selects, "" when it matches no pattern
SelectedFormat(v) ==
    IF JsonObjectShaped(v) THEN "json"
    ELSE IF HasEquals(v) /\ ~HasExport(v) THEN "dotenv_plain"
    ELSE IF HasExport(v) THEN "dotenv_export"
    ELSE ""

\* the fields read from the store whose value matches a pattern
MatchingFields ==
    {i \in DOMAIN outcome.read_data : SelectedFormat(outcome.read_data[i][2]) # ""}

FirstMatchingField ==
    outcome.read_data[CHOOSE i \in MatchingFields : \A j \in MatchingFields : i <= j]

\* C16: without configuration the format and the governed field are those
\* of the first field, in iteration order, whose value matches a pattern,
\* and dotenv_export with field dotenv when no field matches
C16_ContentSniffing ==
    ContentOnly =>
    IF MatchingFields = {}
    THEN outcome.format_type = "dotenv_export" /\ outcome.secret_key = DOTENV
    ELSE /\ outcome.format_type = SelectedFormat(FirstMatchingField[2])
         /\ outcome.secret_key = FirstMatchingField[1]

(***************************************************************************)
(* Properties of the credential pair mapping of rotate_secret_kv.          *)
(***************************************************************************)
\* a credential pair was injected into a PlainKV or JSON blob and written
PairInjected ==
    /\ pc = "done"
    /\ request.key_or_dict.is_dict
    /\ writes # <<>>
    /\ outcome.format_type \in {"json", "dotenv_plain"}

\* the keys of the blob as it was read
ExistingKeys ==
    IF outcome.current_content = <<>> THEN {}
    ELSE ODKeys(read_secret(outcome.current_content, outcome.format_type).value)

KeysEnding(suffix) == {k \in ExistingKeys : EndsWith(Upper(k), suffix)}

\* the blob handed to the store
WrittenBlob == read_secret(ODGet(writes[1].secret, outcome.secret_key), outcome.format_type).value

\* one half of the pair went to an existing key with the suffix under its
\* own name, or to the synthesized name when no key has the suffix
HalfPlaced(suffix, given, for_json, otherwise) ==
    LET v == ODGet(request.key_or_dict.pairs, given)
        Placed(k) == /\ ODHas(outcome.updates, k) /\ ODGet(outcome.updates, k) = v
                     /\ ODHas(WrittenBlob, k) /\ ODGet(WrittenBlob, k) = v
        fresh == IF outcome.format_type = "json" THEN for_json ELSE otherwise
    IN IF KeysEnding(suffix) # {}
       THEN /\ \E k \in KeysEnding(suffix) : Placed(k)
            /\ fresh \notin ExistingKeys => ~ODHas(WrittenBlob, fresh)
       ELSE Placed(fresh)

\* C17: a credential pair injected into a PlainKV or JSON blob goes to the
\* existing keys whose upper-cased names end in ACCESS_KEY and SECRET_KEY,
\* under their original names, and for a half without such a key to
\* S3_ACCESS_KEY / S3_SECRET_KEY for JSON, AWS_ACCESS_KEY / AWS_SECRET_KEY
\* otherwise
C17_CredentialPairKeyNaming ==
    PairInjected =>
    /\ HalfPlaced(ACCESS_KEY, AWS_ACCESS_KEY_ID, S3_ACCESS_KEY, AWS_ACCESS_KEY)
    /\ HalfPlaced(SECRET_KEY, AWS_SECRET_ACCESS_KEY, S3_SECRET_KEY, AWS_SECRET_KEY)

C17_Witness ==
    /\ PairInjected
    /\ outcome.format_type = "dotenv_plain"
    /\ KeysEnding(ACCESS_KEY) = {}
    /\ KeysEnding(SECRET_KEY) = {<<"a", "w", "s", "_", "s", "e", "c", "r", "e", "t", "_", "k", "e", "y">>}
    /\ ODGet(WrittenBlob, <<"a", "w", "s", "_", "s", "e", "c", "r", "e", "t", "_", "k", "e", "y">>) = <<"S", "K">>
    /\ ODGet(WrittenBlob, AWS_ACCESS_KEY) = <<"A", "K">>

C17_JsonWitness ==
    /\ PairInjected
    /\ outcome.format_type = "json"
    /\ KeysEnding(ACCESS_KEY) # {}
    /\ KeysEnding(SECRET_KEY) = {}
    /\ ODGet(WrittenBlob, S3_SECRET_KEY) = <<"S", "K">>

(***************************************************************************)
(* read_secret on its own: texts of every shape decoded in every format.   *)
(***************************************************************************)
MaxDecodeLines == 2

LinePlain == <<"A", "=", "1">>
LinePlainQuoted == <<"B", "=", "\"", "2", "\"">>
LineExportOnly == <<"e", "x", "p", "o", "r", "t">>
LineDashed == <<"a", "-", "b", "=", "1">>
LineNoValue == <<"A", "=">>
LineCommentedOut == <<"#", "e", "x", "p", "o", "r", "t", " ", "A", "=", "\"", "1", "\"">>

DecodeLines ==
    {LineDouble, LineSingle, LineBare, LineComment, LineBlank, LinePlain,
     LinePlainQuoted, LineExportOnly, LineDashed, LineNoValue, LineCommentedOut}

JsonObjectTexts == {<<"{", "}">>, <<"{", "\"", "a", "\"", ":", " ", "\"", "1", "\"", "}">>, <<" ", "{", "\"", "a", "\"", ":", " ", "\"", "1", "\"", ",", " ", "\"", "b", "\"", ":", " ", "\"", "2", "\"", "}", " ">>}

JsonOtherTexts == {<<"[", "]">>, <<"\"", "a", "\"">>, <<"7">>, <<"t", "r", "u", "e">>, <<"f", "a", "l", "s", "e">>, <<"n", "u", "l", "l">>}

NotJsonTexts == {<<"{">>, <<"{", "\"", "a", "\"", "}">>, <<"n", "o", "p", "e">>, <<"{", "\"", "a", "\"", ":", " ", "\"", "1", "\"", "}", " ", "x">>, <<"{", "\"", "a", "\"", ":", " ", "\"", "1", "\"", ",", "}">>}

DecodeTexts ==
    {Join(ls, NL) : ls \in UNION {[1..n -> DecodeLines] : n \in 1..MaxDecodeLines}}
    \cup JsonObjectTexts \cup JsonOtherTexts \cup NotJsonTexts

InitDecode ==
    /\ pc = "start"
    /\ secrets = <<>>
    /\ format_type \in Formats
    /\ encoded \in DecodeTexts
    /\ decoded = NotRead
    /\ UpdaterIdle
    /\ RotationIdle

\* a call read_secret(encoded, format_type)
Decode ==
    /\ pc = "start"
    /\ decoded' = read_secret(encoded, format_type)
    /\ pc' = "decoded"
    /\ UNCHANGED <<secrets, format_type, encoded, updaterVars, rotationVars>>

NextDecode == Decode

SpecDecode == InitDecode /\ [][NextDecode]_vars

(***************************************************************************)
(* Properties of read_secret.                                              *)
(***************************************************************************)
\* C18: JSON decoding fails for every text that is not valid JSON and for
\* every valid JSON text that is not an object, and returns a mapping only
\* for JSON objects
C18_JsonDecodeObjectsOnly ==
    (pc = "decoded" /\ format_type = "json") =>
    /\ encoded \in JsonObjectTexts => ~decoded.raised /\ decoded.is_dict
    /\ encoded \notin JsonObjectTexts => decoded.raised

\* a line of the form: export, blanks, NAME, equals sign, VALUE in quotes;
\* the pair (NAME, VALUE) in a sequence, or the empty sequence
ExportGrammar(line) ==
    LET n == Len(line)
        k == SkipChars(line, 7, {" ", "\t"})
        eq == SkipChars(line, k, WordChars)
    IN IF /\ n >= 12
          /\ SubSeq(line, 1, 6) = ExportWord
          /\ k > 7
          /\ eq > k
          /\ eq + 3 <= n
          /\ line[eq] = "="
          /\ line[eq + 1] \in Quotes
          /\ line[n] = line[eq + 1]
          /\ \A i \in (eq + 2)..(n - 1) : line[i] \notin Quotes
       THEN <<<<SubSeq(line, k, eq - 1), SubSeq(line, eq + 2, n - 1)>>>>
       ELSE <<>>

\* a line of the form NAME, equals sign, VALUE, the value quoted or bare
PlainGrammar(line) ==
    LET n == Len(line)
        eq == SkipChars(line, 1, WordChars)
        quoted == /\ eq + 3 <= n
                  /\ line[eq + 1] \in Quotes
                  /\ line[n] = line[eq + 1]
                  /\ \A i \in (eq + 2)..(n - 1) : line[i] \notin Quotes
    IN IF eq > 1 /\ eq < n /\ line[eq] = "="
       THEN IF quoted THEN <<<<SubSeq(line, 1, eq - 1), SubSeq(line, eq + 2, n - 1)>>>>
            ELSE <<<<SubSeq(line, 1, eq - 1), SubSeq(line, eq + 1, n)>>>>
       ELSE <<>>

\* the mapping of the lines of a text that match the grammar of the format
RECURSIVE LinesDecoded(_, _, _)
LinesDecoded(lines, fmt, result) ==
    IF lines = <<>> THEN result
    ELSE LET hit == IF fmt = "dotenv_export" THEN ExportGrammar(Head(lines))
                    ELSE PlainGrammar(Head(lines))
         IN LinesDecoded(Tail(lines), fmt,
                         IF hit = <<>> THEN result ELSE ODSet(result, hit[1][1], hit[1][2]))

DecodedDotenv == pc = "decoded" /\ format_type \in {"dotenv_export", "dotenv_plain"}

NeverRaises == DecodedDotenv => ~decoded.raised /\ decoded.is_dict

OnlyMatchingLines ==
    (DecodedDotenv /\ ~decoded.raised) =>
    ODEq(decoded.value, LinesDecoded(Split(encoded, "\n"), format_type, <<>>))

\* C19: decoding a text as dotenv_export or dotenv_plain never raises and
\* gives exactly the keys of the lines that match the line grammar of the
\* format, each with the value of its line
C19_PermissiveDecode == NeverRaises /\ OnlyMatchingLines

(***************************************************************************)
(* The early return of update_dotenv_content.                              *)
(***************************************************************************)
\* a call with the text or the update set empty gave the text back as it
\* was, with no old values
GivenBack(text, result) ==
    /\ ~result.raised
    /\ result.text = text
    /\ DOMAIN result.old = {}

\* C20: for every text T and update set U, if T is empty or U is empty the
\* updater returns T unchanged together with an empty old-values mapping
C20_EmptyInputOrUpdates ==
    /\ (pc \in {"applied", "reapplied"} /\ (content = <<>> \/ DOMAIN updates = {}))
           => GivenBack(content, applied)
    /\ (pc = "reapplied" /\ (applied.text = <<>> \/ DOMAIN updates = {}))
           => GivenBack(applied.text, reapplied)

\* an empty update set met a text that stripping would have changed
C20_Witness ==
    /\ pc = "applied"
    /\ DOMAIN updates = {}
    /\ content # Strip(content)
    /\ GivenBack(content, applied)

\* a non-empty update set met the empty text
C20_EmptyTextWitness ==
    /\ pc = "applied"
    /\ content = <<>>
    /\ DOMAIN updates # {}
    /\ GivenBack(content, applied)

(***************************************************************************)
(* Keys defined on several lines of the text.                              *)
(***************************************************************************)
\* the indices of the lines of T that define key k
DefiningLines(k) ==
    {i \in DOMAIN RawLines :
        /\ ExtractedKey(RawLines[i]) = k
        /\ Contains(RawLines[i], <<"=">>)}

LastDefiningLine(k) == RawLines[CHOOSE i \in DefiningLines(k) : \A j \in DefiningLines(k) : j <= i]

\* the number of places of a text at which a piece occurs
Occurrences(text, piece) ==
    Cardinality({i \in 1..(Len(text) - Len(piece) + 1) :
                    SubSeq(text, i, i + Len(piece) - 1) = piece})

\* no line of the returned text still defines k with a value of its own
NoOldLine(k) ==
    \A j \in DOMAIN OutLines :
        (ExtractedKey(OutLines[j]) = k /\ Contains(OutLines[j], <<"=">>)) =>
            StartsWith(NewLine(k, updates[k]), OutLines[j])

Duplicated(k) == k \in DOMAIN updates /\ Cardinality(DefiningLines(k)) >= 2

WriteCompleted ==
    /\ Len(writes') = Len(writes) + 1
    /\ request.faults[Turn] # "write"

\* C23: in the result list of rotate_secrets_for_app the outcome of a path
\* has success true if and only if the write for that path was issued and
\* completed without error
C23_SuccessIffWritten ==
    [][InTurn => (outcome'.results[Turn].success <=> WriteCompleted)]_vars

(***************************************************************************)
(* Single rotations of both kinds: a call of rotate_secret_kv, or the      *)
(* calls of rotate_secret made by a batch.                                 *)
(***************************************************************************)
\* the driver is in a batch, not in a call of rotate_secret_kv
IsBatch == pc \in {"start", "raised", "loop", "done"}

InitKvCall ==
    /\ pc = "call"
    /\ store \in Stores
    /\ request \in Requests
    /\ writes = <<>>
    /\ outcome = NoValue
    /\ snapshot = store
    /\ UpdaterIdle
    /\ CodecIdle

\* the batches of one application under the configuration with which
\* every path of vault_paths.py validates
InitOneAppBatch ==
    /\ InitBatch
    /\ request.app = "helios"
    /\ request.vault_config.DATA_PATH_SEGMENT = DATA

InitRotation == InitOneAppBatch \/ InitKvCall

\* a call rotate_secret_kv(client, mount_point, path, key_or_dict, value,
\* config, environment)
RotateKvCall ==
    /\ pc = "call"
    /\ pc' = "returned"
    /\ \E result \in {rotate_secret_kv(store, request)} :
           /\ store' = result.store
           /\ writes' = writes \o result.writes
           /\ outcome' = result.outcome
    /\ UNCHANGED <<request, snapshot, updaterVars, codecVars>>

NextRotation == NextBatch \/ RotateKvCall

SpecRotation == InitRotation /\ [][NextRotation]_vars

\* a call of rotate_secret_kv has ended
KvEnded == pc = "returned"

\* the blob rotate_secret_kv decoded, when it got as far as decoding
KvDecoded ==
    /\ outcome.format_type \in Formats
    /\ outcome.current_content # <<>> =>
           ~read_secret(outcome.current_content, outcome.format_type).raised

\* rotate_secret_kv: at most one write, issued after the read and the
\* decoding went through; a call that failed before its write left the
\* store as it was
KvWriteDiscipline ==
    KvEnded =>
    /\ Len(writes) <= 1
    /\ writes # <<>> => (~request.read_error /\ KvDecoded)
    /\ (outcome.raised /\ (request.read_error \/ ~request.write_error)) =>
           (writes = <<>> /\ store = snapshot)
    /\ store # snapshot => (Len(writes) = 1 /\ ~outcome.raised)

\* the reasons for which a turn of rotate_secret fails before its write
TurnField == ODGet(store[TurnAddress], request.key)

TurnFailsEarly ==
    \/ request.faults[Turn] = "read"
    \/ TurnAddress \notin DOMAIN store
    \/ KeyMissing
    \/ request.new_value = <<>>
    \/ /\ TurnField # NoValue
       /\ Contains(TurnField, NL)
       /\ json_loads(request.new_value).raised

\* rotate_secret: at most one write per call, none when the call fails
\* early, and the store changes only through a write that went through
TurnWriteDiscipline ==
    (IsBatch /\ InTurn) =>
    /\ Len(writes') <= Len(writes) + 1
    /\ TurnFailsEarly => (writes' = writes /\ store' = store)
    /\ store' # store => (Len(writes') = Len(writes) + 1 /\ request.faults[Turn] = "none")

\* C22: a single rotation (rotate_secret, rotate_secret_kv) issues its write
\* at most once and only after the read and the decode/update computation;
\* when it fails for a read error, a missing key, a missing new value,
\* invalid update JSON or a decode error, no write was issued and the store
\* is unchanged
C22_WriteOnceAfterCompute == [](KvWriteDiscipline) /\ [][TurnWriteDiscipline]_vars

\* rotate_secret_kv failed on a blob that is not JSON, before any write
C22_Witness ==
    /\ KvEnded
    /\ outcome.raised
    /\ ~request.read_error
    /\ ~request.write_error
    /\ outcome.read_status = "found"
    /\ \E p \in DOMAIN snapshot : ODHas(snapshot[p], SECRETS)
                                    /\ ODGet(snapshot[p], SECRETS) = BlobNotJson
    /\ writes = <<>>
    /\ store = snapshot

\* a batch whose update JSON is invalid for a dotenv field ended without a write
C22_BatchWitness ==
    /\ IsBatch
    /\ pc = "done"
    /\ Len(outcome.results) = 6
    /\ request.new_value = <<"n", "e", "w">>
    /\ \A a \in DOMAIN snapshot : ODHas(snapshot[a], Key1) /\ ODGet(snapshot[a], Key1) = BlobTwoLines
    /\ snapshot # EmptyDict
    /\ \A i \in 1..6 : request.faults[i] = "none"
    /\ writes = <<>>
    /\ store = snapshot

(***************************************************************************)
(* The key that receives the access key id.                                *)
(***************************************************************************)
SECRET_ACCESS_KEY == <<"S", "E", "C", "R", "E", "T", "_", "A", "C", "C", "E", "S", "S", "_", "K", "E", "Y">>

\* the keys the access key id of the pair is written to
AccessTargets ==
    {k \in ODKeys(outcome.updates) :
        ODGet(outcome.updates, k) = ODGet(request.key_or_dict.pairs, AWS_ACCESS_KEY_ID)}

\* C24: when rotate_secret_kv injects a credential pair into a PlainKV or
\* JSON blob, the key that receives the access key value is never a key
\* whose upper-cased name ends in SECRET_ACCESS_KEY
C24_SecretKeyNotOverwritten ==
    PairInjected =>
        \A k \in AccessTargets : ~EndsWith(Upper(k), SECRET_ACCESS_KEY)

====
